---- MODULE Spec2Model ----
(***************************************************************************)
(* BbongGuard: evidence-based claim verification.                          *)
(*                                                                         *)
(* Spec        the per-claim text pipeline of                              *)
(*             TextAnalyzer._process_single_claim: search, filter/score,   *)
(*             rank, select top-K, judge.                                  *)
(* SpecRanker  WebSearcher.rerank_by_date and EvidenceRanker.rank_evidence *)
(*             / select_top_evidence applied as functions to bounded       *)
(*             evidence lists.                                             *)
(*                                                                         *)
(* SpecRegistry    SourceManager: construction from the two backing files  *)
(*                 and the query methods applied to bounded URLs.          *)
(* SpecTranscript  YouTubeClient.get_transcript: the captions-API retry    *)
(*                 loop and the yt-dlp / Whisper fallbacks.                *)
(* SpecOrchestrator  analyze_video_multimodal.analyze_generator: audio,    *)
(*                 then text and image, then the terminal event.           *)
(* SpecAggregator  VerdictAgent.aggregate_multimodal_verdicts applied to   *)
(*                 bounded claims, verdicts and modality entries.          *)
(* SpecAnalyzers   ImageAnalyzer.analyze and AudioAnalyzer.analyze with    *)
(*                 each internal step succeeding or failing.               *)
(* SpecText        TextAnalyzer.analyze from the extracted claims on: the  *)
(*                 gathered per-claim verdicts and the text result.        *)
(*                                                                         *)
(* Scores are per-mille integers (0.3 is 300).  A domain is the sequence   *)
(* of its dot-separated labels.  A date string is a record: absent,        *)
(* unparseable, or a day ordinal.                                          *)
(***************************************************************************)
EXTENDS Integers, Sequences, FiniteSets, TLC

VARIABLES
    whitelist,          \* SourceManager.whitelist: ordered tiers
    blacklist,          \* SourceManager.blacklist: list of domains
    claim,              \* the Claim being processed
    video_published_at, \* TextAnalysisRequest.published_at
    top_k,              \* EvidenceRanker.top_k
    pc,                 \* position inside _process_single_claim
    raw_results,        \* result of search_claim
    evidence_list,      \* result of filter_and_format_results (dicts)
    scored_evidence,    \* rank_evidence's sorted scored list
    ranked,             \* rank_evidence's returned Evidence list
    top_evidence,       \* select_top_evidence's result
    verdict,            \* <<>> or <<ClaimVerdict>>
    oracle_calls,       \* number of chat_completion_json calls by judge_claim
    oracle_response,    \* <<>> or <<the response the oracle gave>>
    rk_pc,              \* SpecRanker: position of the ranker harness
    rk_k,               \* SpecRanker: the top_k argument of rank_and_select
    sm_pc,              \* SpecRegistry: "construct", "ready" or "failed"
    sm_files,           \* the two backing files: condition and content
    sm_query,           \* <<>> or <<the last query and its answers>>
    tr_pc,              \* position inside get_transcript
    attempt,            \* get_transcript: the loop variable
    proxy_config,       \* get_transcript: proxy_config is not None
    tr_trace,           \* what get_transcript has done so far
    tr_return,          \* <<>> or <<value returned by get_transcript>>
    orch_pc,            \* position inside analyze_generator
    request,            \* TextAnalysisRequest: where its transcript is from
    audio_task,         \* audio_analyzer.analyze: state and outcome
    text_task,          \* run_with_id("text", ...): state and outcome
    image_task,         \* run_with_id("image", ...): state and outcome
    events,             \* the NDJSON events yielded so far
    text_pc,            \* position of the text task inside analyze
    image_pc,           \* position of the image task inside analyze
    text_claims,        \* text_result.claims: the claim ids, in order
    aggregator_calls,   \* the calls of aggregate_multimodal_verdicts
    transcript_calls,   \* who obtained a transcript: "audio", "text"
    ag_pc,              \* SpecAggregator: "call" or "done"
    ag_input,           \* the arguments and the oracle's behaviour
    ag_return,          \* <<>> or <<what the aggregator returned>>
    an_pc,              \* SpecAnalyzers, SpecText: "call" or "done"
    an_input,           \* the analyzer, its request and its steps
    an_return,          \* <<>> or <<what analyze returned or raised>>
    an_calls            \* the steps the analyze call invoked

\* the variables of the other specifications, idle in each one
registryVars == <<sm_pc, sm_files, sm_query>>
transcriptVars == <<tr_pc, attempt, proxy_config, tr_trace, tr_return>>
orchestratorVars ==
    <<orch_pc, request, audio_task, text_task, image_task, events, text_pc,
      image_pc, text_claims, aggregator_calls, transcript_calls>>
aggregatorVars == <<ag_pc, ag_input, ag_return>>
analyzerVars == <<an_pc, an_input, an_return, an_calls>>
pipelineVars == <<claim, video_published_at, top_k, pc, raw_results,
                  evidence_list, scored_evidence, ranked, top_evidence,
                  verdict, oracle_calls, oracle_response, rk_pc, rk_k>>

vars == <<whitelist, blacklist, pipelineVars, registryVars, transcriptVars,
          orchestratorVars, aggregatorVars, analyzerVars>>

----------------------------------------------------------------------------
(* Bounds *)

MaxHits == 3        \* longest list of raw search hits in Spec
MaxEvidence == 4    \* longest evidence list in SpecRanker
MaxTopK == 2        \* largest explicit top_k argument in SpecRanker
MaxClaims == 2      \* longest claims list of a text result
MaxTextClaims == 3  \* most claims extract_claims_from_video gives in SpecText

----------------------------------------------------------------------------
(* Program constants *)

RAG_TOP_EVIDENCE == 5       \* Config.RAG_TOP_EVIDENCE default
DefaultDomainScore == 300   \* get_domain_score: 0.3
MinDomainScore == 100       \* filter_and_format_results: 0.1
UndatedDiffDays == 3650     \* sentinel distance of undated evidence
NoDateRecency == 700        \* calculate_recency_score: 0.7
Now == 4400                 \* datetime.now(), as a day ordinal
VideoDay == 4000            \* the analysed video's publish day
max_retries == 5            \* get_transcript: attempts of the captions API
base_delay == 4             \* get_transcript: backoff base, seconds
StageTwoRatio == 200        \* ImageAnalyzer.analyze: 0.2, in thousandths

----------------------------------------------------------------------------
(* Dates *)

\* a date string: None or "", a string no parser accepts, an ISO date, or
\* a date in a format dateparser reads and datetime.fromisoformat rejects
NoDate == [k |-> "none", d |-> 0]
BadDate == [k |-> "bad", d |-> 0]
Day(n) == [k |-> "iso", d |-> n]
DayRfc(n) == [k |-> "rfc", d |-> n]

Abs(x) == IF x < 0 THEN -x ELSE x

Min(a, b) == IF a < b THEN a ELSE b

\* 1000 * exp(-x) for x = t/10, rounded; 0 beyond the table
ExpTable ==
    <<1000, 905, 819, 741, 670, 607, 549, 497, 449, 407,
       368, 333, 301, 273, 247, 223, 202, 183, 165, 150,
       135, 122, 111, 100,  91,  82,  74,  67,  61,  55,
        50,  45,  41,  37,  33,  30,  27,  25,  22,  20,
        18,  17,  15,  14,  12,  11,  10,   9,   8,   7,
         7,   6,   6,   5,   5,   4,   4,   3,   3,   3,
         2,   2,   2,   2,   2,   2,   1,   1,   1,   1>>

\* math.exp(-days / scale), per mille
ExpDecay(days, scale) ==
    LET t == (days * 10) \div scale
    IN  IF t + 1 <= Len(ExpTable) THEN ExpTable[t + 1] ELSE 0

----------------------------------------------------------------------------
(* Trust Registry: shared/source_manager.py *)

\* the content of whitelist.json: tiers in file order
WhitelistFile ==
    << [name |-> "tier1",
        domains |-> << [wild |-> FALSE, labels |-> <<"kbs", "co", "kr">>],
                       [wild |-> TRUE,  labels |-> <<"go", "kr">>] >>,
        score |-> 1000, has_categories |-> FALSE, categories |-> {}],
       [name |-> "tier2",
        domains |-> << [wild |-> FALSE, labels |-> <<"health", "kr">>] >>,
        score |-> 800, has_categories |-> TRUE, categories |-> {"health"}],
       [name |-> "tier3",
        domains |-> << [wild |-> FALSE, labels |-> <<"tabloid", "kr">>] >>,
        score |-> 100, has_categories |-> TRUE, categories |-> {"culture"}] >>

\* the "domains" list of blacklist.json
BlacklistFile == << <<"fake", "com">>, <<"rumor", "kr">> >>

\* d ends with "." + b
EndsWithDot(d, b) ==
    /\ Len(d) > Len(b)
    /\ SubSeq(d, Len(d) - Len(b) + 1, Len(d)) = b

\* netloc, lower-cased, without a leading "www."
extract_domain(url) ==
    IF Len(url.host) >= 2 /\ url.host[1] = "www"
    THEN Tail(url.host)
    ELSE url.host

is_blacklisted_subdomain_missed(bl, url) ==
    \E i \in 1..Len(bl) : extract_domain(url) = bl[i]

is_blacklisted(bl, url) ==
    LET domain == extract_domain(url)
    IN  \E i \in 1..Len(bl) : domain = bl[i] \/ EndsWithDot(domain, bl[i])

\* one trusted_domain of a tier against the domain: exact match, wildcard
\* pattern ("*.go.kr" as the regex ^.*\.go\.kr$), or subdomain
TrustedMatches(entry, domain) ==
    IF entry.wild
    THEN EndsWithDot(domain, entry.labels)
    ELSE domain = entry.labels \/ EndsWithDot(domain, entry.labels)

TierMatches(tier, domain) ==
    \E j \in 1..Len(tier.domains) : TrustedMatches(tier.domains[j], domain)

\* index of the tier get_domain_tier returns, 0 for None: the first tier in
\* file order with a matching trusted domain
get_domain_tier(wl, url) ==
    LET domain == extract_domain(url)
        hits == {i \in 1..Len(wl) : TierMatches(wl[i], domain)}
    IN  IF hits = {} THEN 0
        ELSE CHOOSE i \in hits : \A j \in hits : i <= j

get_domain_score_whitelist_first(wl, bl, url) ==
    LET tier == get_domain_tier(wl, url)
    IN  IF tier # 0 THEN wl[tier].score
        ELSE IF is_blacklisted(bl, url) THEN 0 ELSE DefaultDomainScore

get_domain_score(wl, bl, url) ==
    IF is_blacklisted(bl, url) THEN 0
    ELSE LET tier == get_domain_tier(wl, url)
         IN  IF tier # 0 THEN wl[tier].score ELSE DefaultDomainScore

\* final_score of get_credibility_info
get_credibility_info(wl, bl, url, category) ==
    LET tier == get_domain_tier(wl, url)
        base_score == get_domain_score(wl, bl, url)
        category_match ==
            IF tier # 0 /\ wl[tier].has_categories
            THEN category \in wl[tier].categories
            ELSE TRUE
    IN  IF category_match THEN base_score ELSE (base_score * 7) \div 10

----------------------------------------------------------------------------
(* Evidence Filter & Scorer: text_module/web_searcher.py *)

\* the date the URL path carries: none, YYYY-MM-DD with separators, or
\* eight digits; valid says whether month and day are in range
NoPath == [kind |-> "none", valid |-> FALSE, d |-> 0]
SepPath(ok, n) == [kind |-> "sep", valid |-> ok, d |-> n]
DigitsPath(ok, n) == [kind |-> "digits8", valid |-> ok, d |-> n]

\* the separator pattern is returned unvalidated; the 8-digit pattern only
\* when 1 <= month <= 12 and 1 <= day <= 31
extract_date_from_url(url) ==
    CASE url.path.kind = "sep" ->
            IF url.path.valid THEN Day(url.path.d) ELSE BadDate
      [] url.path.kind = "digits8" ->
            IF url.path.valid THEN Day(url.path.d) ELSE NoDate
      [] OTHER -> NoDate

\* the evidence dict built from one raw hit
FormatEvidence(wl, bl, hit, category) ==
    [source_title   |-> hit.title,
     source_url     |-> hit.url,
     domain         |-> extract_domain(hit.url),
     published_date |-> IF hit.published_date.k = "none"
                        THEN extract_date_from_url(hit.url)
                        ELSE hit.published_date,
     domain_score   |-> get_credibility_info(wl, bl, hit.url, category),
     sim            |-> hit.sim,
     has_date_diff  |-> FALSE,
     date_diff_days |-> 0]

KeepHit_floor_ignored(wl, bl, hit, category) ==
    ~is_blacklisted(bl, hit.url)

\* the two `continue` guards of the loop
KeepHit(wl, bl, hit, category) ==
    /\ ~is_blacklisted(bl, hit.url)
    /\ ~(get_credibility_info(wl, bl, hit.url, category) < MinDomainScore)

\* position at which x goes into the sorted t when Python's stable sort
\* meets x after every element of t: before the first element x precedes
InsertAt(t, precedes) ==
    LET later == {i \in 1..Len(t) : precedes[i]}
    IN  IF later = {} THEN Len(t) + 1
        ELSE CHOOSE i \in later : \A j \in later : i <= j

InsertSeq(t, x, at) ==
    SubSeq(t, 1, at - 1) \o <<x>> \o SubSeq(t, at, Len(t))

RECURSIVE SortByDomainScore_ties_reversed(_)
SortByDomainScore_ties_reversed(s) ==
    IF s = <<>> THEN <<>>
    ELSE LET t == SortByDomainScore_ties_reversed(SubSeq(s, 1, Len(s) - 1))
             x == s[Len(s)]
         IN  InsertSeq(t, x, InsertAt(t,
                 [i \in 1..Len(t) |-> x.domain_score >= t[i].domain_score]))

\* sort(key=domain_score, reverse=True)
RECURSIVE SortByDomainScore(_)
SortByDomainScore(s) ==
    IF s = <<>> THEN <<>>
    ELSE LET t == SortByDomainScore(SubSeq(s, 1, Len(s) - 1))
             x == s[Len(s)]
         IN  InsertSeq(t, x, InsertAt(t,
                 [i \in 1..Len(t) |-> x.domain_score > t[i].domain_score]))

RECURSIVE FilterHits(_, _, _, _)
FilterHits(wl, bl, raw, category) ==
    IF raw = <<>> THEN <<>>
    ELSE LET rest == FilterHits(wl, bl, Tail(raw), category)
         IN  IF KeepHit(wl, bl, Head(raw), category)
             THEN <<FormatEvidence(wl, bl, Head(raw), category)>> \o rest
             ELSE rest

filter_and_format_results(wl, bl, raw, category) ==
    SortByDomainScore(FilterHits(wl, bl, raw, category))

\* dateparser.parse: None for a string it cannot read
DateParses(date) == date.k \in {"iso", "rfc"}

\* the date_diff_days rerank_by_date gives one evidence dict
DateDiffDays(ev_date, video_date) ==
    IF ev_date.k = "none" THEN UndatedDiffDays
    ELSE IF DateParses(ev_date) THEN Abs(video_date.d - ev_date.d)
    ELSE UndatedDiffDays

RECURSIVE SortByDateDiff(_)
SortByDateDiff(s) ==
    IF s = <<>> THEN <<>>
    ELSE LET t == SortByDateDiff(SubSeq(s, 1, Len(s) - 1))
             x == s[Len(s)]
         IN  InsertSeq(t, x, InsertAt(t,
                 [i \in 1..Len(t) |-> x.date_diff_days < t[i].date_diff_days]))

\* returns the list untouched when the video date is missing or unparseable
rerank_by_date(evs, video_date) ==
    IF video_date.k = "none" \/ ~DateParses(video_date) THEN evs
    ELSE SortByDateDiff(
            [i \in 1..Len(evs) |->
                [evs[i] EXCEPT !.has_date_diff = TRUE,
                               !.date_diff_days =
                                   DateDiffDays(evs[i].published_date, video_date)]])

----------------------------------------------------------------------------
(* Evidence Ranker: text_module/evidence_ranker.py *)

\* np.clip(similarity, 0.0, 1.0)
Clip01(x) == IF x < 0 THEN 0 ELSE IF x > 1000 THEN 1000 ELSE x

\* 0.7 without a date or with one fromisoformat rejects; otherwise
\* exp(-days_ago / 365) clamped to [0, 1]
calculate_recency_score(published_date) ==
    IF published_date.k # "iso" THEN NoDateRecency
    ELSE LET days_ago == Now - published_date.d
         IN  IF days_ago < 0 THEN 1000 ELSE ExpDecay(days_ago, 365)

\* weights 0.4 / 0.2 / 0.4; the result is in units of 1/10000
calculate_combined_score(relevance_score, domain_score, recency_score) ==
    4 * relevance_score + 2 * domain_score + 4 * recency_score

Evidence(ev) ==
    [source_title   |-> ev.source_title,
     source_url     |-> ev.source_url,
     domain         |-> ev.domain,
     published_date |-> ev.published_date]

\* one entry of scored_evidence
ScoreEvidence(ev) ==
    LET relevance_score == Clip01(ev.sim)
        recency_score ==
            IF ev.has_date_diff THEN ExpDecay(ev.date_diff_days, 30)
            ELSE calculate_recency_score(ev.published_date)
    IN  [evidence       |-> Evidence(ev),
         combined_score |-> calculate_combined_score(
                                relevance_score, ev.domain_score, recency_score),
         date_diff_days |-> IF ev.has_date_diff THEN ev.date_diff_days
                            ELSE UndatedDiffDays]

ScoreAll(evs) == [i \in 1..Len(evs) |-> ScoreEvidence(evs[i])]

RankBefore_score_only(x, y) == x.combined_score > y.combined_score

RankBefore_ties_reversed(x, y) ==
    \/ x.date_diff_days < y.date_diff_days
    \/ /\ x.date_diff_days = y.date_diff_days
       /\ x.combined_score >= y.combined_score

\* the sort key (date_diff_days, -combined_score): x sorts strictly before y
RankBefore(x, y) ==
    \/ x.date_diff_days < y.date_diff_days
    \/ /\ x.date_diff_days = y.date_diff_days
       /\ x.combined_score > y.combined_score

RECURSIVE SortScored(_)
SortScored(s) ==
    IF s = <<>> THEN <<>>
    ELSE LET t == SortScored(SubSeq(s, 1, Len(s) - 1))
             x == s[Len(s)]
         IN  InsertSeq(t, x, InsertAt(t,
                 [i \in 1..Len(t) |-> RankBefore(x, t[i])]))

\* scored_evidence after the sort; the empty list when the embedding fails
ScoredEvidence(evs, embed_ok) ==
    IF evs = <<>> \/ ~embed_ok THEN <<>> ELSE SortScored(ScoreAll(evs))

rank_evidence(evs, embed_ok) ==
    LET sc == ScoredEvidence(evs, embed_ok)
    IN  [i \in 1..Len(sc) |-> sc[i].evidence]

select_top_evidence_off_by_one(ranked_evidence, k_arg, self_top_k) ==
    LET k == IF k_arg # <<>> THEN k_arg[1] ELSE self_top_k
    IN  SubSeq(ranked_evidence, 1, Min(k + 1, Len(ranked_evidence)))

\* ranked_evidence[:k], k the argument or self.top_k when it is None
select_top_evidence(ranked_evidence, k_arg, self_top_k) ==
    LET k == IF k_arg # <<>> THEN k_arg[1] ELSE self_top_k
    IN  SubSeq(ranked_evidence, 1, Min(k, Len(ranked_evidence)))

rank_and_select(evs, embed_ok, k_arg, self_top_k) ==
    select_top_evidence(rank_evidence(evs, embed_ok), k_arg, self_top_k)

----------------------------------------------------------------------------
(* Claim Verifier: text_module/verdict_agent.py, shared/text_module.py *)

VerdictStatuses == {"verified_true", "verified_false", "insufficient_evidence"}

\* ClaimVerdict.verdict_status when the constructor is not given one
DefaultVerdictStatus == "insufficient_evidence"

\* what the oracle side does for one judge_claim call: client_ok is
\* get_llm_client() succeeding; kind "answer" a parsed JSON object, kind
\* "error" an exception of chat_completion_json with message msg
OracleBehaviours ==
    { [client_ok |-> TRUE, kind |-> "answer", has_status |-> TRUE,
       status |-> st, msg |-> "", reason |-> "oracle_reason"] :
         st \in VerdictStatuses \cup {"mostly_true"} }
    \cup
    { [client_ok |-> TRUE, kind |-> "answer", has_status |-> FALSE,
       status |-> "", msg |-> "", reason |-> "oracle_reason"] }
    \cup
    { [client_ok |-> TRUE, kind |-> "error", has_status |-> FALSE,
       status |-> "", msg |-> m, reason |-> ""] :
         m \in {"timeout", "json_parse_failed"} }
    \cup
    { [client_ok |-> FALSE, kind |-> "error", has_status |-> FALSE,
       status |-> "", msg |-> "client_init_failed", reason |-> ""] }

\* the ClaimVerdict of _process_single_claim when the search gave nothing
NoEvidenceVerdict(c) ==
    [claim_id       |-> c.claim_id,
     category       |-> c.category,
     verdict_status |-> DefaultVerdictStatus,
     is_fake        |-> TRUE,
     verdict_reason |-> <<"no_trusted_source_found">>,
     evidence       |-> <<>>]

\* result.get('verdict_status', ...) followed by the validity check
ValidatedStatus(resp) ==
    LET st == IF resp.has_status THEN resp.status ELSE "insufficient_evidence"
    IN  IF st \in VerdictStatuses THEN st ELSE "insufficient_evidence"

JudgeErrorVerdict_evidence_dropped(c, evs, msg) ==
    [claim_id       |-> c.claim_id,
     category       |-> c.category,
     verdict_status |-> "insufficient_evidence",
     is_fake        |-> FALSE,
     verdict_reason |-> <<"error_during_judgment", msg>>,
     evidence       |-> <<>>]

JudgeErrorVerdict_message_dropped(c, evs, msg) ==
    [claim_id       |-> c.claim_id,
     category       |-> c.category,
     verdict_status |-> "insufficient_evidence",
     is_fake        |-> FALSE,
     verdict_reason |-> <<"error_during_judgment">>,
     evidence       |-> evs]

\* the except branch of judge_claim
JudgeErrorVerdict(c, evs, msg) ==
    [claim_id       |-> c.claim_id,
     category       |-> c.category,
     verdict_status |-> "insufficient_evidence",
     is_fake        |-> FALSE,
     verdict_reason |-> <<"error_during_judgment", msg>>,
     evidence       |-> evs]

OracleInvoked_always(evs, resp) == resp.client_ok

\* whether judge_claim reaches chat_completion_json
OracleInvoked(evs, resp) == resp.client_ok /\ evs # <<>>

judge_claim(c, evs, resp) ==
    IF ~resp.client_ok THEN JudgeErrorVerdict(c, evs, resp.msg)
    ELSE IF evs = <<>> THEN
        [claim_id       |-> c.claim_id,
         category       |-> c.category,
         verdict_status |-> DefaultVerdictStatus,
         is_fake        |-> FALSE,
         verdict_reason |-> <<"no_evidence_found">>,
         evidence       |-> <<>>]
    ELSE IF resp.kind = "error" THEN JudgeErrorVerdict(c, evs, resp.msg)
    ELSE
        \* verdict_status is validated and used for is_fake, and the
        \* constructor is called without it
        [claim_id       |-> c.claim_id,
         category       |-> c.category,
         verdict_status |-> DefaultVerdictStatus,
         is_fake        |-> (ValidatedStatus(resp) = "verified_false"),
         verdict_reason |-> <<resp.reason>>,
         evidence       |-> evs]

----------------------------------------------------------------------------
(* Inputs *)

Url(host, path) == [host |-> host, path |-> path]

Hit(title, host, path, published_date, sim) ==
    [title |-> title, url |-> Url(host, path),
     published_date |-> published_date, sim |-> sim]

\* raw search hits: denylisted by www-stripping and as a subdomain, a
\* lookalike of a denylisted domain, whitelisted tiers, unknown domains
HitPool ==
    { Hit("fake_www", <<"www", "fake", "com">>, NoPath, Day(VideoDay), 900),
      Hit("fake_sub", <<"news", "fake", "com">>, NoPath, NoDate, 900),
      Hit("notfake", <<"notfake", "com">>, NoPath, Day(VideoDay), 300),
      Hit("kbs", <<"news", "kbs", "co", "kr">>, NoPath, Day(Now - 1), 900),
      Hit("health", <<"health", "kr">>, DigitsPath(TRUE, VideoDay + 5),
          NoDate, 500),
      Hit("tabloid", <<"www", "tabloid", "kr">>, SepPath(FALSE, 0),
          NoDate, 500),
      Hit("blog", <<"blog", "io">>, NoPath, DayRfc(VideoDay), 0 - 100) }

\* hits whose dicts are given to the ranker on their own: near the video,
\* recent, undated, more than ten years from the video, exactly 3650 days
\* from it, and with an unparseable date (scoring like the undated one)
RankerHitPool ==
    { Hit("near", <<"notfake", "com">>, NoPath, Day(VideoDay), 300),
      Hit("recent", <<"news", "kbs", "co", "kr">>, NoPath, Day(Now - 1), 900),
      Hit("undated", <<"blog", "io">>, NoPath, NoDate, 900),
      Hit("old", <<"kbs", "co", "kr">>, NoPath, Day(VideoDay - 3900), 900),
      Hit("decade", <<"health", "kr">>, NoPath,
          Day(VideoDay - UndatedDiffDays), 300),
      Hit("garbled", <<"blog", "io">>, SepPath(FALSE, 0), NoDate, 900) }

SeqsUpTo(S, n) == UNION {[1..m -> S] : m \in 0..n}

Categories == {"health", "culture"}

VideoDates == {NoDate, BadDate, Day(VideoDay)}

EvidencePool ==
    { FormatEvidence(WhitelistFile, BlacklistFile, h, "health") :
        h \in RankerHitPool }

\* the fields of the other specifications while one of them runs
NoTask == [state |-> "idle", outcome |-> "none"]

RegistryIdle == sm_pc = "idle" /\ sm_files = <<>> /\ sm_query = <<>>

TranscriptIdle ==
    /\ tr_pc = "idle"
    /\ attempt = 0
    /\ proxy_config = FALSE
    /\ tr_trace = <<>>
    /\ tr_return = <<>>

OrchestratorIdle ==
    /\ orch_pc = "idle"
    /\ request = [transcript |-> "none"]
    /\ audio_task = NoTask
    /\ text_task = NoTask
    /\ image_task = NoTask
    /\ events = <<>>
    /\ text_pc = "idle"
    /\ image_pc = "idle"
    /\ text_claims = <<>>
    /\ aggregator_calls = <<>>
    /\ transcript_calls = <<>>

AggregatorIdle == ag_pc = "idle" /\ ag_input = <<>> /\ ag_return = <<>>

AnalyzerIdle ==
    an_pc = "idle" /\ an_input = <<>> /\ an_return = <<>> /\ an_calls = {}

----------------------------------------------------------------------------
(* Spec: TextAnalyzer._process_single_claim *)

Init ==
    /\ whitelist \in {WhitelistFile, <<>>}
    /\ blacklist \in {BlacklistFile, <<>>}
    /\ claim \in {[claim_id |-> "c1", category |-> c] : c \in Categories}
    /\ video_published_at = Day(VideoDay)
    /\ top_k \in {2, RAG_TOP_EVIDENCE}
    /\ pc = "search"
    /\ raw_results = <<>>
    /\ evidence_list = <<>>
    /\ scored_evidence = <<>>
    /\ ranked = <<>>
    /\ top_evidence = <<>>
    /\ verdict = <<>>
    /\ oracle_calls = 0
    /\ oracle_response = <<>>
    /\ rk_pc = "idle"
    /\ rk_k = <<>>
    /\ RegistryIdle
    /\ TranscriptIdle
    /\ OrchestratorIdle
    /\ AggregatorIdle
    /\ AnalyzerIdle

\* search_and_filter, then the early return without evidence; a failed
\* search returns the empty list like a search without results
SearchAndFilter ==
    /\ pc = "search"
    /\ \E raw \in SeqsUpTo(HitPool, MaxHits) :
        LET evs == filter_and_format_results(whitelist, blacklist, raw,
                                             claim.category)
        IN  /\ raw_results' = raw
            /\ evidence_list' = evs
            /\ IF evs = <<>>
               THEN /\ verdict' = <<NoEvidenceVerdict(claim)>>
                    /\ pc' = "done"
               ELSE /\ verdict' = verdict
                    /\ pc' = "rank"
    /\ UNCHANGED <<whitelist, blacklist, claim, video_published_at, top_k,
                   scored_evidence, ranked, top_evidence, oracle_calls,
                   oracle_response, rk_pc, rk_k,
                   registryVars, transcriptVars, orchestratorVars,
                   aggregatorVars, analyzerVars>>

\* evidence_ranker.rank_and_select(claim, evidence_list)
RankAndSelect ==
    /\ pc = "rank"
    /\ \E embed_ok \in BOOLEAN :
        /\ scored_evidence' = ScoredEvidence(evidence_list, embed_ok)
        /\ ranked' = rank_evidence(evidence_list, embed_ok)
        /\ top_evidence' = rank_and_select(evidence_list, embed_ok, <<>>, top_k)
    /\ pc' = "judge"
    /\ UNCHANGED <<whitelist, blacklist, claim, video_published_at, top_k,
                   raw_results, evidence_list, verdict, oracle_calls,
                   oracle_response, rk_pc, rk_k,
                   registryVars, transcriptVars, orchestratorVars,
                   aggregatorVars, analyzerVars>>

\* verdict_agent.judge_claim(claim, top_evidence)
JudgeClaim ==
    /\ pc = "judge"
    /\ \E resp \in OracleBehaviours :
        /\ verdict' = <<judge_claim(claim, top_evidence, resp)>>
        /\ oracle_calls' =
              oracle_calls + (IF OracleInvoked(top_evidence, resp) THEN 1 ELSE 0)
        /\ oracle_response' = <<resp>>
    /\ pc' = "done"
    /\ UNCHANGED <<whitelist, blacklist, claim, video_published_at, top_k,
                   raw_results, evidence_list, scored_evidence, ranked,
                   top_evidence, rk_pc, rk_k,
                   registryVars, transcriptVars, orchestratorVars,
                   aggregatorVars, analyzerVars>>

Next == SearchAndFilter \/ RankAndSelect \/ JudgeClaim

Spec == Init /\ [][Next]_vars

----------------------------------------------------------------------------
(* SpecRanker: the ranker's methods applied to evidence lists *)

InitRanker ==
    /\ whitelist = WhitelistFile
    /\ blacklist = BlacklistFile
    /\ claim = [claim_id |-> "c1", category |-> "health"]
    /\ video_published_at = NoDate
    /\ top_k = RAG_TOP_EVIDENCE
    /\ pc = "idle"
    /\ raw_results = <<>>
    /\ evidence_list \in SeqsUpTo(EvidencePool, MaxEvidence)
    /\ scored_evidence = <<>>
    /\ ranked = <<>>
    /\ top_evidence = <<>>
    /\ verdict = <<>>
    /\ oracle_calls = 0
    /\ oracle_response = <<>>
    /\ rk_pc = "start"
    /\ rk_k = <<>>
    /\ RegistryIdle
    /\ TranscriptIdle
    /\ OrchestratorIdle
    /\ AggregatorIdle
    /\ AnalyzerIdle

\* web_searcher.rerank_by_date(evidence_list, video_published_at_str)
RerankByDate ==
    /\ rk_pc = "start"
    /\ \E v \in VideoDates :
        /\ video_published_at' = v
        /\ evidence_list' = rerank_by_date(evidence_list, v)
    /\ rk_pc' = "reranked"
    /\ UNCHANGED <<whitelist, blacklist, claim, top_k, pc, raw_results,
                   scored_evidence, ranked, top_evidence, verdict,
                   oracle_calls, oracle_response, rk_k,
                   registryVars, transcriptVars, orchestratorVars,
                   aggregatorVars, analyzerVars>>

\* evidence_ranker.rank_and_select(claim, evidence_list, top_k)
RankerRankAndSelect ==
    /\ rk_pc \in {"start", "reranked"}
    /\ \E embed_ok \in BOOLEAN,
          k \in {<<>>} \cup {<<n>> : n \in 0..MaxTopK} :
        /\ scored_evidence' = ScoredEvidence(evidence_list, embed_ok)
        /\ ranked' = rank_evidence(evidence_list, embed_ok)
        /\ top_evidence' = rank_and_select(evidence_list, embed_ok, k, top_k)
        /\ rk_k' = k
    /\ rk_pc' = "done"
    /\ UNCHANGED <<whitelist, blacklist, claim, video_published_at, top_k, pc,
                   raw_results, evidence_list, verdict, oracle_calls,
                   oracle_response,
                   registryVars, transcriptVars, orchestratorVars,
                   aggregatorVars, analyzerVars>>

NextRanker == RerankByDate \/ RankerRankAndSelect

SpecRanker == InitRanker /\ [][NextRanker]_vars

----------------------------------------------------------------------------
(* Properties of the per-claim pipeline (Spec) *)

Range(s) == {s[i] : i \in 1..Len(s)}

IsSuffix(b, d) ==
    Len(d) >= Len(b) /\ \A i \in 1..Len(b) : d[Len(d) - Len(b) + i] = b[i]

\* the domain equals a denylist entry or is a subdomain of one
DeniedDomain(d) == \E b \in Range(blacklist) : IsSuffix(b, d)

VerdictEvidence == IF verdict = <<>> THEN <<>> ELSE verdict[1].evidence

C2_NoEvidenceNoOracle ==
    (pc = "done" /\ (evidence_list = <<>> \/ top_evidence = <<>>)) =>
        /\ Len(verdict) = 1
        /\ verdict[1].verdict_status = "insufficient_evidence"
        /\ verdict[1].evidence = <<>>
        /\ oracle_calls = 0

C2_Witness ==
    /\ pc = "done"
    /\ evidence_list # <<>>
    /\ top_evidence = <<>>
    /\ oracle_response # <<>>
    /\ oracle_response[1].client_ok
    /\ oracle_response[1].kind = "answer"
    /\ oracle_response[1].status = "verified_false"

\* C3: every ClaimVerdict has is_fake = (verdict_status = verified_false)
C3_IsFakeIffVerifiedFalse ==
    \A v \in Range(verdict) :
        v.is_fake <=> (v.verdict_status = "verified_false")

\* the oracle's answer as the claim maps it: itself when it is one of the
\* three statuses, insufficient_evidence otherwise
ExpectedStatus(resp) ==
    IF resp.has_status /\ resp.status \in VerdictStatuses
    THEN resp.status
    ELSE "insufficient_evidence"

OracleAnswered ==
    /\ pc = "done"
    /\ top_evidence # <<>>
    /\ oracle_response # <<>>
    /\ oracle_response[1].client_ok
    /\ oracle_response[1].kind = "answer"

\* C4: with non-empty evidence and an answering oracle, the verdict's status
\* is the oracle's answer when that is one of the three statuses, and
\* insufficient_evidence for any other or missing answer
C4_StatusIsOracleAnswer ==
    OracleAnswered =>
        verdict[1].verdict_status = ExpectedStatus(oracle_response[1])

OracleFailed ==
    /\ pc = "done"
    /\ top_evidence # <<>>
    /\ oracle_response # <<>>
    /\ oracle_response[1].kind = "error"

\* C5: when the oracle call fails, judge_claim returns a verdict with status
\* insufficient_evidence, is_fake false, a reason holding the failure
\* message, the claim's id and the evidence list it was given
C5_OracleFailureVerdict ==
    OracleFailed =>
        /\ Len(verdict) = 1
        /\ verdict[1].verdict_status = "insufficient_evidence"
        /\ ~verdict[1].is_fake
        /\ oracle_response[1].msg \in Range(verdict[1].verdict_reason)
        /\ verdict[1].claim_id = claim.claim_id
        /\ verdict[1].evidence = top_evidence

C5_Witness ==
    /\ OracleFailed
    /\ oracle_response[1].client_ok
    /\ oracle_response[1].msg = "timeout"
    /\ oracle_calls = 1

\* C7: the evidence given to the Claim Verifier is ordered by the distance
\* of its publish date from the video's publish date
C7_TopEvidenceByVideoDate ==
    (pc \in {"judge", "done"}) =>
        \A i, j \in 1..Len(top_evidence) :
            i < j =>
                DateDiffDays(top_evidence[i].published_date, video_published_at)
                  <= DateDiffDays(top_evidence[j].published_date,
                                  video_published_at)

----------------------------------------------------------------------------
(* Properties of the ranker (SpecRanker) *)

RankerDone == rk_pc = "done" /\ ranked # <<>>

C8_UndatedSortLast ==
    (RankerDone /\ DateParses(video_published_at)) =>
        \A i, j \in 1..Len(ranked) :
            (i < j /\ ~DateParses(ranked[i].published_date))
                => ~DateParses(ranked[j].published_date)

SameKey(a, b) ==
    /\ a.date_diff_days = b.date_diff_days
    /\ a.combined_score = b.combined_score

\* the entries of s that tie with x, in the order s has them
Ties(s, x) == LET T(e) == SameKey(e, x) IN SelectSeq(s, T)

SelectedK == IF rk_k # <<>> THEN rk_k[1] ELSE top_k

\* C10: rank_and_select returns the first min(K, n) items of the ordered
\* list, K the top_k argument or the configured default
C10_TopKIsPrefix ==
    rk_pc = "done" =>
        /\ Len(top_evidence) = Min(SelectedK, Len(ranked))
        /\ Len(top_evidence) <= SelectedK
        /\ \A i \in 1..Len(top_evidence) : top_evidence[i] = ranked[i]

C10_Witness ==
    /\ rk_pc = "done"
    /\ top_evidence # <<>>
    /\ Len(top_evidence) = SelectedK
    /\ Len(top_evidence) < Len(ranked)
    /\ scored_evidence # ScoreAll(evidence_list)

----------------------------------------------------------------------------
(* SpecRegistry: SourceManager built from its files, then queried *)

\* the pipeline's variables while another specification runs
PipelineIdle ==
    /\ claim = [claim_id |-> "c1", category |-> "health"]
    /\ video_published_at = NoDate
    /\ top_k = RAG_TOP_EVIDENCE
    /\ pc = "idle"
    /\ raw_results = <<>>
    /\ evidence_list = <<>>
    /\ scored_evidence = <<>>
    /\ ranked = <<>>
    /\ top_evidence = <<>>
    /\ verdict = <<>>
    /\ oracle_calls = 0
    /\ oracle_response = <<>>
    /\ rk_pc = "idle"
    /\ rk_k = <<>>

\* a whitelist.json in which a later tier lists a domain exactly that an
\* earlier tier covers by wildcard, and lists a wildcard for a domain that
\* an earlier tier covers as a subdomain
WhitelistOverlap ==
    << [name |-> "tier1",
        domains |-> << [wild |-> TRUE,  labels |-> <<"go", "kr">>],
                       [wild |-> FALSE, labels |-> <<"korea", "kr">>] >>,
        score |-> 1000, has_categories |-> FALSE, categories |-> {}],
       [name |-> "tier2",
        domains |-> << [wild |-> FALSE, labels |-> <<"moel", "go", "kr">>],
                       [wild |-> TRUE,  labels |-> <<"korea", "kr">>] >>,
        score |-> 800, has_categories |-> TRUE, categories |-> {"health"}] >>

\* a blacklist.json that denies domains the whitelists cover
BlacklistOverlap ==
    << <<"tabloid", "kr">>, <<"ads", "kbs", "co", "kr">>,
       <<"moel", "go", "kr">> >>

\* what open() and json.load() do with a backing file
LoadFailures == {"FileNotFoundError", "JSONDecodeError", "OSError"}

BackingFile(cond, data) == [cond |-> cond, data |-> data]

WhitelistFiles ==
    {BackingFile("ok", d) : d \in {WhitelistFile, WhitelistOverlap}}
        \cup {BackingFile(c, <<>>) : c \in LoadFailures}

BlacklistFiles ==
    {BackingFile("ok", d) : d \in {BlacklistFile, BlacklistOverlap}}
        \cup {BackingFile(c, <<>>) : c \in LoadFailures}

\* the two except clauses of a loader; any other exception propagates
LoadCaught(file) == file.cond \in {"FileNotFoundError", "JSONDecodeError"}

LoadRaises(file) == file.cond # "ok" /\ ~LoadCaught(file)

load_whitelist(file) == IF file.cond = "ok" THEN file.data ELSE <<>>

load_blacklist_builtin_on_failure(file) ==
    IF file.cond = "ok" THEN file.data ELSE BlacklistFile

load_blacklist(file) == IF file.cond = "ok" THEN file.data ELSE <<>>

RegistryUrls ==
    {Url(h, NoPath) :
        h \in { <<"kbs", "co", "kr">>, <<"www", "kbs", "co", "kr">>,
                <<"news", "kbs", "co", "kr">>, <<"ads", "kbs", "co", "kr">>,
                <<"moel", "go", "kr">>, <<"news", "korea", "kr">>,
                <<"health", "kr">>, <<"tabloid", "kr">>,
                <<"www", "fake", "com">>, <<"blog", "example", "com">> }}

InitRegistry ==
    /\ whitelist = <<>>
    /\ blacklist = <<>>
    /\ sm_pc = "construct"
    /\ sm_files \in [whitelist : WhitelistFiles, blacklist : BlacklistFiles]
    /\ sm_query = <<>>
    /\ PipelineIdle
    /\ TranscriptIdle
    /\ OrchestratorIdle
    /\ AggregatorIdle
    /\ AnalyzerIdle

\* SourceManager(): the whitelist is loaded first, then the blacklist
Construct ==
    /\ sm_pc = "construct"
    /\ IF LoadRaises(sm_files.whitelist) \/ LoadRaises(sm_files.blacklist)
       THEN /\ sm_pc' = "failed"
            /\ UNCHANGED <<whitelist, blacklist>>
       ELSE /\ sm_pc' = "ready"
            /\ whitelist' = load_whitelist(sm_files.whitelist)
            /\ blacklist' = load_blacklist(sm_files.blacklist)
    /\ UNCHANGED <<sm_files, sm_query, pipelineVars, transcriptVars,
                   orchestratorVars,
                   aggregatorVars, analyzerVars>>

Query_remembering ==
    /\ sm_pc = "ready"
    /\ \E url \in RegistryUrls :
        /\ sm_query' = <<>>
        /\ blacklist' = Append(blacklist, extract_domain(url))
    /\ UNCHANGED <<whitelist, sm_pc, sm_files, pipelineVars,
                   transcriptVars, orchestratorVars,
                   aggregatorVars, analyzerVars>>

\* one call of get_credibility_info(url, category), with the answers of
\* the methods it calls
Query ==
    /\ sm_pc = "ready"
    /\ \E url \in RegistryUrls, category \in Categories :
        sm_query' =
            << [url |-> url,
                category |-> category,
                domain |-> extract_domain(url),
                is_blacklisted |-> is_blacklisted(blacklist, url),
                tier |-> get_domain_tier(whitelist, url),
                base_score |-> get_domain_score(whitelist, blacklist, url),
                final_score |->
                    get_credibility_info(whitelist, blacklist, url, category)] >>
    /\ UNCHANGED <<whitelist, blacklist, sm_pc, sm_files, pipelineVars,
                   transcriptVars, orchestratorVars,
                   aggregatorVars, analyzerVars>>

NextRegistry == Construct \/ Query

SpecRegistry == InitRegistry /\ [][NextRegistry]_vars

----------------------------------------------------------------------------
(* Properties of the registry (SpecRegistry) and of the filter (Spec) *)

\* how one whitelist entry covers a domain
MatchKind(entry, d) ==
    IF entry.wild
    THEN IF Len(d) > Len(entry.labels) /\ IsSuffix(entry.labels, d)
         THEN "wildcard" ELSE "none"
    ELSE IF d = entry.labels THEN "exact"
         ELSE IF IsSuffix(entry.labels, d) THEN "suffix" ELSE "none"

\* the tiers of the loaded whitelist that cover d with the given kind
TiersWithKind(d, kind) ==
    {i \in 1..Len(whitelist) :
        \E j \in 1..Len(whitelist[i].domains) :
            MatchKind(whitelist[i].domains[j], d) = kind}

ListedTiers(d) ==
    TiersWithKind(d, "exact") \cup TiersWithKind(d, "wildcard")
        \cup TiersWithKind(d, "suffix")

C12_MatchKindPriority ==
    sm_query # <<>> =>
        LET q == sm_query[1]
            exact == TiersWithKind(q.domain, "exact")
            wildcard == TiersWithKind(q.domain, "wildcard")
            suffix == TiersWithKind(q.domain, "suffix")
        IN  IF exact # {} THEN q.tier \in exact
            ELSE IF wildcard # {} THEN q.tier \in wildcard
            ELSE IF suffix # {} THEN q.tier \in suffix
            ELSE q.tier = 0

\* a backing file that is missing or is not JSON
Unloadable(file) == file.cond \in {"FileNotFoundError", "JSONDecodeError"}

TrustScore(hit) ==
    get_credibility_info(whitelist, blacklist, hit.url, claim.category)

\* the raw hits that are neither denied nor below the floor
Passing ==
    {j \in 1..Len(raw_results) :
        /\ ~DeniedDomain(extract_domain(raw_results[j].url))
        /\ TrustScore(raw_results[j]) >= MinDomainScore}

----------------------------------------------------------------------------
(* SpecTranscript: YouTubeClient.get_transcript, shared/youtube_client.py *)

\* the substrings get_transcript looks for in str(e)
Markers == {"Tunnel connection failed", "500", "429", "Too Many Requests"}

FetchOk == [type |-> "ok", msg |-> {}]

\* an exception of api.fetch: its class and the markers its message holds
Raised(type, msg) == [type |-> type, msg |-> msg]

\* what one YouTubeTranscriptApi(proxy_config).fetch call can do; a tunnel
\* failure needs a proxy
FetchOutcomes(proxy) ==
    {FetchOk, Raised("TranscriptsDisabled", {}), Raised("NoTranscriptFound", {}),
     Raised("Exception", {}), Raised("Exception", {"500"}),
     Raised("Exception", {"429"}), Raised("Exception", {"Too Many Requests"}),
     Raised("Exception", {"500", "429"})}
        \cup (IF proxy
              THEN {Raised("Exception", {"Tunnel connection failed"})}
              ELSE {})

is_proxy_error(msg) == "Tunnel connection failed" \in msg \/ "500" \in msg

is_rate_limit(msg) == "429" \in msg \/ "Too Many Requests" \in msg

\* the first except clause
NonRetryable(x) == x.type \in {"TranscriptsDisabled", "NoTranscriptFound"}

\* the test of the second except clause
Retryable(x) ==
    x.type = "Exception" /\ (is_proxy_error(x.msg) \/ is_rate_limit(x.msg))

RetryAllowed_one_more(a) == a < max_retries

\* attempt < max_retries - 1
RetryAllowed(a) == a < max_retries - 1

NextProxyConfig_kept(proxy, x) == proxy

\* proxy_config after a retried error
NextProxyConfig(proxy, x) ==
    IF is_proxy_error(x.msg) /\ proxy THEN FALSE ELSE proxy

\* random.random() * 2, in tenths of a second
Jitters == {0, 19}

Pow2(n) == IF n = 0 THEN 1 ELSE IF n = 1 THEN 2 ELSE IF n = 2 THEN 4
           ELSE IF n = 3 THEN 8 ELSE IF n = 4 THEN 16 ELSE 32

Delay_linear(a, jitter) == base_delay * 10 * (a + 1) + jitter

\* base_delay * (2 ** attempt) + jitter, in tenths of a second
Delay(a, jitter) == base_delay * 10 * Pow2(a) + jitter

NoOutcome == [type |-> "none", msg |-> {}]

\* one thing get_transcript did
Ev(e, a, proxy, x, d) ==
    [e |-> e, attempt |-> a, proxy |-> proxy, outcome |-> x, delay |-> d]

InitTranscript ==
    /\ whitelist = <<>>
    /\ blacklist = <<>>
    /\ tr_pc = "start"
    /\ attempt = 0
    /\ proxy_config = FALSE
    /\ tr_trace = <<>>
    /\ tr_return = <<>>
    /\ PipelineIdle
    /\ RegistryIdle
    /\ OrchestratorIdle
    /\ AggregatorIdle
    /\ AnalyzerIdle

\* lines 157-169: the proxy is configured when both credentials are set;
\* an exception here is met by the outer except clause, which calls
\* _get_transcript_via_ytdlp
SetupProxy ==
    /\ tr_pc = "start"
    /\ \E setup \in {"no_credentials", "proxy", "raises"} :
        /\ proxy_config' = (setup = "proxy")
        /\ tr_pc' = IF setup = "raises" THEN "ytdlp" ELSE "fetch"
        /\ tr_trace' = Append(tr_trace,
              Ev("setup", 0, setup = "proxy",
                 IF setup = "raises" THEN Raised("Exception", {})
                 ELSE NoOutcome, 0))
    /\ attempt' = 0
    /\ UNCHANGED <<tr_return, whitelist, blacklist, pipelineVars,
                   registryVars, orchestratorVars,
                   aggregatorVars, analyzerVars>>

\* one iteration of the for loop up to its return or its time.sleep
Fetch ==
    /\ tr_pc = "fetch"
    /\ \E x \in FetchOutcomes(proxy_config) :
        /\ tr_trace' = Append(tr_trace, Ev("fetch", attempt, proxy_config, x, 0))
        /\ IF x = FetchOk
           THEN /\ tr_return' = <<"script">>
                /\ tr_pc' = "done"
                /\ UNCHANGED proxy_config
           ELSE IF NonRetryable(x)
           THEN /\ tr_return' = <<"">>
                /\ tr_pc' = "done"
                /\ UNCHANGED proxy_config
           ELSE IF Retryable(x) /\ RetryAllowed(attempt)
           THEN /\ proxy_config' = NextProxyConfig(proxy_config, x)
                /\ tr_pc' = "sleep"
                /\ UNCHANGED tr_return
           ELSE /\ tr_return' = <<"">>
                /\ tr_pc' = "done"
                /\ UNCHANGED proxy_config
    /\ UNCHANGED <<attempt, whitelist, blacklist, pipelineVars, registryVars,
                   orchestratorVars,
                   aggregatorVars, analyzerVars>>

\* time.sleep(delay); continue
Backoff ==
    /\ tr_pc = "sleep"
    /\ \E jitter \in Jitters :
        tr_trace' = Append(tr_trace,
            Ev("sleep", attempt, proxy_config, NoOutcome, Delay(attempt, jitter)))
    /\ attempt' = attempt + 1
    /\ tr_pc' = "fetch"
    /\ UNCHANGED <<proxy_config, tr_return, whitelist, blacklist, pipelineVars,
                   registryVars, orchestratorVars,
                   aggregatorVars, analyzerVars>>

\* _get_transcript_via_ytdlp: a subtitle file, or Whisper
Ytdlp ==
    /\ tr_pc = "ytdlp"
    /\ \E out \in {"transcript", "no_subtitles", "raises"} :
        /\ tr_trace' = Append(tr_trace,
              Ev("ytdlp", attempt, proxy_config, Raised(out, {}), 0))
        /\ IF out = "transcript"
           THEN tr_return' = <<"script">> /\ tr_pc' = "done"
           ELSE tr_return' = tr_return /\ tr_pc' = "whisper"
    /\ UNCHANGED <<attempt, proxy_config, whitelist, blacklist, pipelineVars,
                   registryVars, orchestratorVars,
                   aggregatorVars, analyzerVars>>

\* _get_transcript_via_whisper: the recognised text, or ""
Whisper ==
    /\ tr_pc = "whisper"
    /\ \E out \in {"transcript", "ImportError", "no_audio_file", "no_text",
                   "raises"} :
        /\ tr_trace' = Append(tr_trace,
              Ev("whisper", attempt, proxy_config, Raised(out, {}), 0))
        /\ tr_return' = IF out = "transcript" THEN <<"script">> ELSE <<"">>
    /\ tr_pc' = "done"
    /\ UNCHANGED <<attempt, proxy_config, whitelist, blacklist, pipelineVars,
                   registryVars, orchestratorVars,
                   aggregatorVars, analyzerVars>>

NextTranscript == SetupProxy \/ Fetch \/ Backoff \/ Ytdlp \/ Whisper

SpecTranscript == InitTranscript /\ [][NextTranscript]_vars

----------------------------------------------------------------------------
(* Properties of transcript acquisition (SpecTranscript) *)

\* the positions of the captions-API calls in the trace
Fetches == {i \in 1..Len(tr_trace) : tr_trace[i].e = "fetch"}

\* the fallback strategies were entered after position i
FallbackAfter(i) ==
    \/ i = Len(tr_trace) /\ tr_pc = "ytdlp"
    \/ i < Len(tr_trace) /\ tr_trace[i + 1].e = "ytdlp"

\* C15: a captions-disabled or no-captions error of the captions API is
\* never followed by another call of the captions API, and the one thing
\* that follows it is the next strategy, the external downloader.
C15_NonRetryableAdvances ==
    \A i \in Fetches :
        NonRetryable(tr_trace[i].outcome) =>
            /\ \A j \in Fetches : j <= i
            /\ FallbackAfter(i)

\* C16: when every one of the max_retries captions-API calls fails with a
\* retryable error, the external downloader is tried next; the call does
\* not end there with an empty transcript.
C16_ExhaustedRetriesAdvance ==
    (/\ Cardinality(Fetches) = max_retries
     /\ \A i \in Fetches : Retryable(tr_trace[i].outcome))
        => /\ FallbackAfter(Len(tr_trace))
           /\ tr_return # <<"">>

\* an exception of the captions API that no except branch classifies
Unclassified(x) ==
    x.type = "Exception" /\ ~is_proxy_error(x.msg) /\ ~is_rate_limit(x.msg)

C18_ProxyStaysOff ==
    \A i \in Fetches :
        (tr_trace[i].outcome.type = "Exception"
            /\ is_proxy_error(tr_trace[i].outcome.msg)) =>
            /\ \A j \in Fetches : j > i => ~tr_trace[j].proxy
            /\ i = Len(tr_trace) =>
                IF RetryAllowed(tr_trace[i].attempt)
                THEN tr_pc = "sleep" /\ ~proxy_config /\ tr_return = <<>>
                ELSE tr_pc = "done"
            /\ (i < Len(tr_trace) /\ RetryAllowed(tr_trace[i].attempt)) =>
                tr_trace[i + 1].e = "sleep"
            /\ (i + 1 < Len(tr_trace) /\ RetryAllowed(tr_trace[i].attempt)) =>
                tr_trace[i + 2].e = "fetch"

C18_Witness ==
    \E i, j \in Fetches :
        /\ i < j
        /\ tr_trace[i].proxy
        /\ "Tunnel connection failed" \in tr_trace[i].outcome.msg
        /\ ~tr_trace[j].proxy
        /\ tr_trace[j].attempt = tr_trace[i].attempt + 2

----------------------------------------------------------------------------
(* SpecOrchestrator: analyze_video_multimodal.analyze_generator, main.py *)

Running == [state |-> "running", outcome |-> "none"]

Finished(outcome) == [state |-> "done", outcome |-> outcome]

Event(type, message) == [type |-> type, message |-> message]

\* audio_analyzer.analyze: a result with a transcript, a result without
\* one, a result with status=error, or an exception
AudioOutcomes == {"transcript", "no_transcript", "error", "raised"}

\* text_analyzer.analyze: a result with claims, _create_no_claims_result,
\* or _create_error_result; its except clause lets no exception out
TextOutcomes == {"claims", "no_claims", "error"}

\* image_analyzer.analyze: a result, a result with status=error, or an
\* exception, which run_with_id returns as the task's result
ImageOutcomes == {"success", "error", "raised"}

\* aggregate_multimodal_verdicts: the oracle's verdict or the default one
AggregatorOutcomes == {"verdict", "default_verdict"}

\* claim_extractor.py:107 gives every claim a fresh uuid4 as claim_id
ClaimIds == {"c1", "c2"}

\* text_result.claims of a result with claims: the valid verdicts, one or
\* more, with pairwise distinct claim ids
ClaimLists ==
    { s \in SeqsUpTo(ClaimIds, MaxClaims) :
        /\ s # <<>>
        /\ \A i, j \in 1..Len(s) : s[i] = s[j] => i = j }

InitOrchestrator ==
    /\ whitelist = <<>>
    /\ blacklist = <<>>
    /\ orch_pc = "start"
    /\ request \in {[transcript |-> t] : t \in {"none", "client"}}
    /\ audio_task = NoTask
    /\ text_task = NoTask
    /\ image_task = NoTask
    /\ events = <<>>
    /\ text_pc = "idle"
    /\ image_pc = "idle"
    /\ text_claims = <<>>
    /\ aggregator_calls = <<>>
    /\ transcript_calls = <<>>
    /\ PipelineIdle
    /\ RegistryIdle
    /\ TranscriptIdle
    /\ AggregatorIdle
    /\ AnalyzerIdle

\* lines 82-116: two progress events, then await audio_analyzer.analyze
StartAudio ==
    /\ orch_pc = "start"
    /\ events' = events \o << Event("progress", "request_received"),
                              Event("progress", "audio_running") >>
    /\ audio_task' = Running
    /\ orch_pc' = "audio"
    /\ UNCHANGED <<request, text_task, image_task, text_pc, image_pc,
                   text_claims, aggregator_calls, transcript_calls,
                   whitelist, blacklist, pipelineVars, registryVars,
                   transcriptVars, aggregatorVars, analyzerVars>>

\* lines 116-124: the audio call returns or raises
AudioFinishes ==
    /\ orch_pc = "audio"
    /\ \E out \in AudioOutcomes :
        /\ request.transcript = "client" => out # "no_transcript"
        /\ audio_task' = Finished(out)
    /\ transcript_calls' =
          IF request.transcript = "none"
          THEN Append(transcript_calls, "audio") ELSE transcript_calls
    /\ events' = Append(events, Event("progress", "audio_done"))
    /\ orch_pc' = "barrier"
    /\ UNCHANGED <<request, text_task, image_task, text_pc, image_pc,
                   text_claims, aggregator_calls, whitelist, blacklist,
                   pipelineVars, registryVars, transcriptVars,
                   aggregatorVars, analyzerVars>>

HandOverTranscript_skipped(req, audio_out) == req

\* lines 132-134: the transcript of the audio result goes onto a request
\* that has none
HandOverTranscript(req, audio_out) ==
    IF audio_out = "transcript" /\ req.transcript = "none"
    THEN [transcript |-> "audio"]
    ELSE req

CanStartTextAndImage_without_barrier == orch_pc \in {"audio", "barrier"}

\* the text and image coroutines are created after the audio await
CanStartTextAndImage == orch_pc = "barrier"

\* lines 129-152: the audio transcript goes onto the request, and
\* as_completed schedules the text task and the image task
StartTextAndImage ==
    /\ CanStartTextAndImage
    /\ events' = Append(events, Event("progress", "text_image_running"))
    /\ request' = HandOverTranscript(request, audio_task.outcome)
    /\ text_task' = Running
    /\ image_task' = Running
    /\ text_pc' = "scheduled"
    /\ image_pc' = "scheduled"
    /\ orch_pc' = "phase2"
    /\ UNCHANGED <<audio_task, text_claims, aggregator_calls, transcript_calls,
                   whitelist, blacklist, pipelineVars, registryVars,
                   transcriptVars, aggregatorVars, analyzerVars>>

\* the one thread of the event loop is inside the synchronous call
\* youtube_client.get_transcript (text_analyzer.py:56), which is not
\* awaited, or inside its time.sleep (youtube_client.py:206)
EventLoopHeld == text_pc \in {"transcript", "sleep"}

\* the event loop runs the text task up to its first suspension point:
\* with no transcript on the request it enters get_transcript
TextStarts ==
    /\ orch_pc = "phase2"
    /\ text_pc = "scheduled"
    /\ ~EventLoopHeld
    /\ text_pc' = IF request.transcript = "none"
                  THEN "transcript" ELSE "awaiting"
    /\ transcript_calls' =
          IF request.transcript = "none"
          THEN Append(transcript_calls, "text") ELSE transcript_calls
    /\ UNCHANGED <<orch_pc, request, audio_task, text_task, image_task,
                   events, image_pc, text_claims, aggregator_calls,
                   whitelist, blacklist, pipelineVars, registryVars,
                   transcriptVars, aggregatorVars, analyzerVars>>

\* get_transcript's retry loop reaches time.sleep(delay)
TranscriptBackoff ==
    /\ text_pc = "transcript"
    /\ text_pc' = "sleep"
    /\ UNCHANGED <<orch_pc, request, audio_task, text_task, image_task, events,
                   image_pc, text_claims, aggregator_calls,
                   transcript_calls, whitelist, blacklist, pipelineVars,
                   registryVars, transcriptVars, aggregatorVars,
                   analyzerVars>>

\* time.sleep returns and the loop continues with the next attempt
BackoffEnds ==
    /\ text_pc = "sleep"
    /\ text_pc' = "transcript"
    /\ UNCHANGED <<orch_pc, request, audio_task, text_task, image_task, events,
                   image_pc, text_claims, aggregator_calls,
                   transcript_calls, whitelist, blacklist, pipelineVars,
                   registryVars, transcriptVars, aggregatorVars,
                   analyzerVars>>

\* get_transcript returns or raises; the text task goes on to the await
\* of extract_claims_from_video or to its except clause
TranscriptReturns ==
    /\ text_pc = "transcript"
    /\ text_pc' = "awaiting"
    /\ UNCHANGED <<orch_pc, request, audio_task, text_task, image_task, events,
                   image_pc, text_claims, aggregator_calls,
                   transcript_calls, whitelist, blacklist, pipelineVars,
                   registryVars, transcriptVars, aggregatorVars,
                   analyzerVars>>

\* the event loop runs the image task up to its first suspension point
ImageStarts ==
    /\ orch_pc = "phase2"
    /\ image_pc = "scheduled"
    /\ ~EventLoopHeld
    /\ image_pc' = "awaiting"
    /\ UNCHANGED <<orch_pc, request, audio_task, text_task, image_task, events,
                   text_pc, text_claims, aggregator_calls,
                   transcript_calls, whitelist, blacklist, pipelineVars,
                   registryVars, transcriptVars, aggregatorVars,
                   analyzerVars>>

\* the text task completes and the as_completed loop yields its progress
TextCompletes ==
    /\ orch_pc = "phase2"
    /\ text_pc = "awaiting"
    /\ ~EventLoopHeld
    /\ \E out \in TextOutcomes :
        \E cl \in (IF out = "claims" THEN ClaimLists ELSE {<<>>}) :
            /\ text_task' = Finished(out)
            /\ text_claims' = cl
    /\ text_pc' = "done"
    /\ events' = Append(events, Event("progress", "text_done"))
    /\ UNCHANGED <<orch_pc, request, audio_task, image_task, image_pc,
                   aggregator_calls, transcript_calls, whitelist,
                   blacklist, pipelineVars, registryVars, transcriptVars,
                   aggregatorVars, analyzerVars>>

\* the image task completes and the as_completed loop yields its progress
ImageCompletes ==
    /\ orch_pc = "phase2"
    /\ image_pc = "awaiting"
    /\ ~EventLoopHeld
    /\ \E out \in ImageOutcomes : image_task' = Finished(out)
    /\ image_pc' = "done"
    /\ events' = Append(events, Event("progress", "image_done"))
    /\ UNCHANGED <<orch_pc, request, audio_task, text_task, text_pc, text_claims,
                   aggregator_calls, transcript_calls, whitelist,
                   blacklist, pipelineVars, registryVars, transcriptVars,
                   aggregatorVars, analyzerVars>>

\* isinstance(text_result, Exception) or not text_result
TextResultIsFailure(out) == out = "raised"

\* results["audio"]: lines 119-122 store None when the audio call raised
AudioResultOf(out) == IF out = "raised" THEN "None" ELSE out

\* isinstance(result, Exception), lines 218 and 227
IsException(result) == result = "raised"

\* the fields without a default value, the same in ImageModuleResult
\* (image_module/schemas.py) and AudioModuleResult (audio_module/schemas.py)
ModuleResultRequired ==
    {"video_id", "analysis_summary", "claims", "processing_time_ms",
     "status"}

\* the keyword arguments of the substitute results, the same in lines
\* 220-225 (image) and 229-234 (audio)
SentinelFields == {"video_id", "analysis_summary", "claims", "status"}

\* pydantic raises ValidationError when a required field is not given
Validates(given, required) == required \subseteq given

InjectClaims_as_analyzed(claims) == <<>>

\* lines 236-256: the claims of the image result and of the audio result
\* are replaced by one entry per claim of the claims list, in its order,
\* with that claim's id
InjectClaims(claims) == [i \in 1..Len(claims) |-> claims[i]]

\* the status field of the result handed to the aggregator
StatusOf(out) == IF out \in {"error", "raised"} THEN "error" ELSE "success"

\* the FinalVerdict of the non-informational exit, lines 203-208
NoClaimsVerdict == [is_fake_news |-> FALSE, confidence_level |-> "low"]

IntegrationStep_claims_not_tested(text_out, claims, image_out, audio_out) ==
    IF TextResultIsFailure(text_out) THEN "text_failed"
    ELSE IF AudioResultOf(audio_out) = "None" THEN "exception"
    ELSE "aggregate"

IntegrationStep_no_early_exit(text_out, claims, image_out, audio_out) ==
    "aggregate"

\* lines 172-265, what the integration step comes to: the text failure
\* exit, the non-informational exit, an exception that reaches the outer
\* except clause (the substitute result fails validation, or audio_result
\* is None and audio_result.analysis_summary raises AttributeError), or
\* the call of the aggregator
IntegrationStep(text_out, claims, image_out, audio_out) ==
    IF TextResultIsFailure(text_out) THEN "text_failed"
    ELSE IF claims = <<>> THEN "no_claims"
    ELSE IF IsException(image_out)
            /\ ~Validates(SentinelFields, ModuleResultRequired)
    THEN "exception"
    ELSE IF IsException(AudioResultOf(audio_out))
            /\ ~Validates(SentinelFields, ModuleResultRequired)
    THEN "exception"
    ELSE IF AudioResultOf(audio_out) = "None" THEN "exception"
    ELSE "aggregate"

IntegrationEvents_no_return(step) ==
    << Event("progress", "integrating"),
       Event("error", "text_failed"),
       Event("result", "no_claims_verdict") >>

\* the events the integration step yields before it returns or awaits
\* the aggregator
IntegrationEvents(step) ==
    << Event("progress", "integrating") >> \o
    CASE step = "text_failed" -> << Event("error", "text_failed") >>
      [] step = "no_claims" -> << Event("result", "no_claims_verdict") >>
      [] step = "exception" -> << Event("error", "exception") >>
      [] step = "aggregate" -> << >>

\* the arguments of aggregate_multimodal_verdicts, lines 259-265
AggregatorCall(claims, image_out, audio_out) ==
    [ claims |-> claims,
      text_verdicts |-> claims,
      image_claims |-> InjectClaims(claims),
      image_status |-> StatusOf(image_out),
      audio_claims |-> InjectClaims(claims),
      audio_status |-> StatusOf(audio_out) ]

\* lines 163-265
Integrate ==
    /\ orch_pc = "phase2"
    /\ text_task.state = "done"
    /\ image_task.state = "done"
    /\ LET step == IntegrationStep(text_task.outcome, text_claims,
                                   image_task.outcome, audio_task.outcome)
       IN /\ events' = events \o IntegrationEvents(step)
          /\ IF step = "aggregate"
             THEN /\ aggregator_calls' =
                        Append(aggregator_calls,
                               AggregatorCall(text_claims,
                                              image_task.outcome,
                                              audio_task.outcome))
                  /\ orch_pc' = "aggregating"
             ELSE /\ aggregator_calls' = aggregator_calls
                  /\ orch_pc' = "done"
    /\ UNCHANGED <<request, audio_task, text_task, image_task, text_pc, image_pc,
                   text_claims, transcript_calls, whitelist, blacklist,
                   pipelineVars, registryVars, transcriptVars,
                   aggregatorVars, analyzerVars>>

\* lines 259-277: the aggregator returns a FinalVerdict and the result
\* event is yielded
AggregatorReturns ==
    /\ orch_pc = "aggregating"
    /\ \E agg \in AggregatorOutcomes :
        events' = Append(events, Event("result", agg))
    /\ orch_pc' = "done"
    /\ UNCHANGED <<request, audio_task, text_task, image_task, text_pc, image_pc,
                   text_claims, aggregator_calls, transcript_calls,
                   whitelist, blacklist, pipelineVars, registryVars,
                   transcriptVars, aggregatorVars, analyzerVars>>

NextOrchestrator ==
    \/ StartAudio
    \/ AudioFinishes
    \/ StartTextAndImage
    \/ TextStarts
    \/ TranscriptBackoff
    \/ BackoffEnds
    \/ TranscriptReturns
    \/ ImageStarts
    \/ TextCompletes
    \/ ImageCompletes
    \/ Integrate
    \/ AggregatorReturns

SpecOrchestrator == InitOrchestrator /\ [][NextOrchestrator]_vars

----------------------------------------------------------------------------
(* Properties of the orchestrator (SpecOrchestrator) *)

C20_TextFailureIsFatal ==
    (orch_pc = "done" /\ text_task.outcome = "error") =>
        /\ events[Len(events)].type = "error"
        /\ \A i \in 1..Len(events) : events[i].type # "result"

LastEvent == events[Len(events)]

\* C21: a run in which the image task raised, the audio call did not, and
\* the text result has at least one claim calls the aggregator with an
\* image result of status=error and ends with a result event.
C21_ImageFailureTolerated ==
    (orch_pc = "done" /\ image_task.outcome = "raised"
        /\ audio_task.outcome # "raised" /\ text_claims # <<>>) =>
        /\ Len(aggregator_calls) = 1
        /\ aggregator_calls[1].image_status = "error"
        /\ LastEvent.type = "result"

\* C22: a run in which the audio call raised, the image task did not, and
\* the text result has at least one claim calls the aggregator with an
\* audio result of status=error and ends with a result event.
C22_AudioFailureTolerated ==
    (orch_pc = "done" /\ audio_task.outcome = "raised"
        /\ image_task.outcome # "raised" /\ text_claims # <<>>) =>
        /\ Len(aggregator_calls) = 1
        /\ aggregator_calls[1].audio_status = "error"
        /\ LastEvent.type = "result"

\* a finished run whose text result carries no claims
NoClaimsRun ==
    /\ orch_pc = "done"
    /\ ~TextResultIsFailure(text_task.outcome)
    /\ text_claims = <<>>

IsTerminal(e) == e.type \in {"result", "error"}

\* C24: the events of a run are progress events followed by one terminal
\* event, a result or an error: a terminal event is the last event and
\* the run is over with it, a run that is over has a terminal event, and
\* a run that is not over can take a step.
C24_OneTerminalEvent ==
    /\ \A i \in 1..Len(events) :
            /\ events[i].type \in {"progress", "result", "error"}
            /\ IsTerminal(events[i]) => (i = Len(events) /\ orch_pc = "done")
    /\ orch_pc = "done" => (events # <<>> /\ IsTerminal(LastEvent))
    /\ orch_pc # "done" => ENABLED NextOrchestrator

C24_Witness ==
    /\ orch_pc = "done"
    /\ LastEvent = Event("error", "exception")
    /\ Len(events) = 8

\* C28: in every call of the aggregator the claims of the image result and
\* the claims of the audio result each hold one entry per claim of the
\* text result, with the same claim ids in the same order.
C28_ClaimsInjected ==
    \A i \in 1..Len(aggregator_calls) :
        /\ aggregator_calls[i].claims = text_claims
        /\ aggregator_calls[i].image_claims = text_claims
        /\ aggregator_calls[i].audio_claims = text_claims

C28_Witness ==
    /\ Len(aggregator_calls) = 1
    /\ aggregator_calls[1].image_claims = <<"c2", "c1">>
    /\ aggregator_calls[1].image_status = "error"

\* C30: while the text task is inside transcript acquisition, its backoff
\* waits included, an image task that has not finished can take a step.
C30_ImageProgressesDuringTranscript ==
    (text_pc \in {"transcript", "sleep"} /\ image_task.state = "running")
        => (ENABLED ImageStarts \/ ENABLED ImageCompletes)

----------------------------------------------------------------------------
(* SpecAggregator: VerdictAgent.aggregate_multimodal_verdicts,            *)
(* verdict_agent.py                                                        *)

\* the evidence of one text ClaimVerdict, as its source urls in order
EvidenceLists ==
    { <<>>, <<"u1">>, <<"u1", "u1">>, <<"u1", "u2">>, <<"u2", "u1">> }

\* what a modality result holds for one claim: no entry with its
\* claim_id, an entry whose notes list is empty, or an entry with a note
ViewKinds == {"absent", "empty", "note"}

\* get_llm_client raises; chat_completion_json raises; it returns a JSON
\* object without the verdict's fields, one whose fields FinalVerdict
\* rejects, or one that says fake or not fake
OracleOutcomes ==
    {"client_raises", "chat_raises", "no_fields", "invalid_fields",
     "says_fake", "says_real"}

\* the arguments of one call: the claims, per claim the evidence of the
\* text verdict with its claim_id (<<>> when there is none, else
\* <<evidence>>) and the kind of its image and audio entries, and what
\* the oracle does
AggregatorInputs ==
    { [claims |-> cl, text |-> t, image |-> i, audio |-> a, oracle |-> o] :
        cl \in ClaimLists,
        t \in [ClaimIds -> {<<>>} \cup {<<e>> : e \in EvidenceLists}],
        i \in [ClaimIds -> ViewKinds],
        a \in [ClaimIds -> ViewKinds],
        o \in OracleOutcomes }

\* lines 152-159: the evidence of one verdict goes to text_sources_info,
\* an entry per url that the list does not hold yet
RECURSIVE AddSources(_, _, _)
AddSources_no_url_test(sources, evidence, reason) ==
    IF evidence = <<>> THEN sources
    ELSE AddSources(Append(sources, [url |-> Head(evidence),
                                    reason |-> reason]),
                    Tail(evidence), reason)

AddSources(sources, evidence, reason) ==
    IF evidence = <<>> THEN sources
    ELSE AddSources(
            IF \E k \in 1..Len(sources) : sources[k].url = Head(evidence)
            THEN sources
            ELSE Append(sources, [url |-> Head(evidence),
                                  reason |-> reason]),
            Tail(evidence), reason)

\* img_res.get("notes", ["분석 없음"]) and its audio twin, lines 162-169
NotesOf(kind) ==
    CASE kind = "absent" -> <<"no_analysis">>
      [] kind = "empty" -> <<>>
      [] kind = "note" -> <<"summary">>

\* lines 133-186, the loop over the claims up to claim n: either an
\* exception (notes[0] on an empty list raises IndexError) or the sources
\* collected and the three views of each claim written into the prompt
RECURSIVE JoinClaims(_, _)
JoinClaims(in, n) ==
    IF n = 0 THEN [raised |-> FALSE, sources |-> <<>>, views |-> <<>>]
    ELSE
        LET prev == JoinClaims(in, n - 1)
            id == in.claims[n]
        IN  IF prev.raised \/ NotesOf(in.image[id]) = <<>>
                           \/ NotesOf(in.audio[id]) = <<>>
            THEN [raised |-> TRUE, sources |-> <<>>, views |-> <<>>]
            ELSE [ raised |-> FALSE,
                   sources |->
                       IF in.text[id] = <<>> THEN prev.sources
                       ELSE AddSources(prev.sources, in.text[id][1], id),
                   views |-> Append(prev.views,
                       [ claim_id |-> id,
                         text |-> IF in.text[id] = <<>>
                                  THEN "no_verdict" ELSE "verdict",
                         image |-> Head(NotesOf(in.image[id])),
                         audio |-> Head(NotesOf(in.audio[id])) ]) ]

\* lines 195-207: the FinalVerdict made of the oracle's JSON object
OracleVerdict(oracle, sources) ==
    [ is_fake_news |-> oracle = "says_fake",
      confidence_level |-> IF oracle = "no_fields" THEN "medium" ELSE "high",
      overall_reasoning |-> IF oracle = "no_fields"
                            THEN "no_result" ELSE "oracle",
      text_sources |-> sources ]

\* lines 212-217: the FinalVerdict of the except clause
DefaultVerdict ==
    [ is_fake_news |-> FALSE,
      confidence_level |-> "low",
      overall_reasoning |-> "aggregation_failed",
      text_sources |-> <<>> ]

\* lines 127-207, the body of the try statement: an exception, or the
\* FinalVerdict together with the views that went into the prompt
AggregationBody(in) ==
    LET joined == JoinClaims(in, Len(in.claims))
    IN  IF in.oracle = "client_raises" \/ joined.raised
           \/ in.oracle \in {"chat_raises", "invalid_fields"}
        THEN [raised |-> TRUE, views |-> <<>>]
        ELSE [ raised |-> FALSE,
               verdict |-> OracleVerdict(in.oracle, joined.sources),
               views |-> joined.views ]

\* the except clause turns every exception of the body into the default
\* verdict; log_execution hands on what the function returns
aggregate_multimodal_verdicts_reraise(in) ==
    IF AggregationBody(in).raised
    THEN [raised |-> TRUE, views |-> <<>>]
    ELSE AggregationBody(in)

aggregate_multimodal_verdicts(in) ==
    IF AggregationBody(in).raised
    THEN [raised |-> FALSE, verdict |-> DefaultVerdict, views |-> <<>>]
    ELSE AggregationBody(in)

InitAggregator ==
    /\ whitelist = <<>>
    /\ blacklist = <<>>
    /\ ag_pc = "call"
    /\ ag_input \in AggregatorInputs
    /\ ag_return = <<>>
    /\ PipelineIdle
    /\ RegistryIdle
    /\ TranscriptIdle
    /\ OrchestratorIdle
    /\ AnalyzerIdle

Aggregate ==
    /\ ag_pc = "call"
    /\ ag_return' = <<aggregate_multimodal_verdicts(ag_input)>>
    /\ ag_pc' = "done"
    /\ UNCHANGED <<ag_input, whitelist, blacklist, pipelineVars,
                   registryVars, transcriptVars, orchestratorVars,
                   analyzerVars>>

SpecAggregator == InitAggregator /\ [][Aggregate]_vars

----------------------------------------------------------------------------
(* Properties of the aggregator (SpecAggregator) *)

\* the call has returned or raised
Aggregated == ag_pc = "done"

\* a step of the body failed: the client, a join, the oracle call or the
\* construction of the FinalVerdict
BodyFailure ==
    \/ ag_input.oracle \in {"client_raises", "chat_raises", "invalid_fields"}
    \/ \E n \in 1..Len(ag_input.claims) :
          \/ ag_input.image[ag_input.claims[n]] = "empty"
          \/ ag_input.audio[ag_input.claims[n]] = "empty"

\* C25: aggregate_multimodal_verdicts never raises, and when the oracle
\* call or a step of building the request fails it returns the default
\* FinalVerdict: is_fake_news false, confidence_level low, a reasoning
\* that says the aggregation failed.
C25_AggregatorNeverRaises ==
    Aggregated =>
        /\ ~ag_return[1].raised
        /\ BodyFailure =>
            /\ ~ag_return[1].verdict.is_fake_news
            /\ ag_return[1].verdict.confidence_level = "low"
            /\ ag_return[1].verdict.overall_reasoning = "aggregation_failed"

C25_Witness ==
    /\ Aggregated
    /\ ag_input.oracle = "chat_raises"
    /\ Len(ag_input.claims) = 2
    /\ ag_return[1].verdict = DefaultVerdict

\* the urls of the evidence of the text verdict joined to claim n
UrlsOfClaim(n) ==
    LET t == ag_input.text[ag_input.claims[n]]
    IN  IF t = <<>> THEN {} ELSE { t[1][k] : k \in 1..Len(t[1]) }

JoinedUrls == UNION { UrlsOfClaim(n) : n \in 1..Len(ag_input.claims) }

\* the claim_id of the first claim, in claim order, with url in its evidence
FirstClaimWith(url) ==
    ag_input.claims[
        CHOOSE n \in 1..Len(ag_input.claims) :
            /\ url \in UrlsOfClaim(n)
            /\ \A m \in 1..(n - 1) : url \notin UrlsOfClaim(m) ]

\* no two entries share a url, every url of the joined evidence has an
\* entry, and each entry is the one of the first claim that has its url
Deduplicated(sources) ==
    /\ \A j, k \in 1..Len(sources) : sources[j].url = sources[k].url => j = k
    /\ { sources[k].url : k \in 1..Len(sources) } = JoinedUrls
    /\ \A k \in 1..Len(sources) :
            sources[k].reason = FirstClaimWith(sources[k].url)

\* C26 as stated: the text_sources of the FinalVerdict returned for any
\* claims and text verdicts are deduplicated by url, hold every url of the
\* verdicts' evidence once, and keep the first entry in claim order.
C26_TextSourcesDeduplicated ==
    Aggregated => Deduplicated(ag_return[1].verdict.text_sources)

\* C26 amended: when no step of the aggregation failed, the text_sources of
\* the FinalVerdict are deduplicated by url, hold every url of the evidence
\* of the verdicts joined to the claims once, and keep the first entry in
\* claim order; the default FinalVerdict of a failed aggregation has no
\* text_sources.
C26_TextSourcesDeduplicatedOnSuccess ==
    Aggregated =>
        IF BodyFailure
        THEN ag_return[1].verdict.text_sources = <<>>
        ELSE Deduplicated(ag_return[1].verdict.text_sources)

C26_Witness ==
    /\ Aggregated
    /\ ~BodyFailure
    /\ ag_input.claims = <<"c2", "c1">>
    /\ ag_input.text["c2"] = << <<"u1", "u1">> >>
    /\ ag_input.text["c1"] = << <<"u2", "u1">> >>
    /\ ag_return[1].verdict.text_sources =
          << [url |-> "u1", reason |-> "c2"], [url |-> "u2", reason |-> "c1"] >>

\* C27: when the oracle answers, every claim of the claim list has its
\* three views in the request, joined by claim_id; a view without a text
\* verdict, without an image or audio entry, or with an entry whose notes
\* are empty is the neutral default, and the aggregation does not fail.
C27_MissingViewsAreNeutral ==
    (Aggregated /\ ag_input.oracle \in {"no_fields", "says_fake", "says_real"})
        =>
        /\ ag_return[1].verdict # DefaultVerdict
        /\ Len(ag_return[1].views) = Len(ag_input.claims)
        /\ \A n \in 1..Len(ag_input.claims) :
            LET id == ag_input.claims[n]
                v == ag_return[1].views[n]
            IN  /\ v.claim_id = id
                /\ ag_input.text[id] = <<>> => v.text = "no_verdict"
                /\ ag_input.image[id] \in {"absent", "empty"}
                      => v.image = "no_analysis"
                /\ ag_input.audio[id] \in {"absent", "empty"}
                      => v.audio = "no_analysis"

----------------------------------------------------------------------------
(* SpecAnalyzers: ImageAnalyzer.analyze, image_analyzer.py, and            *)
(* AudioAnalyzer.analyze, audio_analyzer.py                                *)

\* _analyze_thumbnail_text: it raises (download or OCR failed), or gives
\* the text's share of the image, in thousandths, and whether the text
\* has a keyword
OcrOutcomes ==
    {[raised |-> TRUE, ratio |-> 0, has_clickbait |-> FALSE]} \cup
    {[raised |-> FALSE, ratio |-> r, has_clickbait |-> k] :
        r \in {0, StageTwoRatio - 1, StageTwoRatio, 600}, k \in BOOLEAN}

\* _analyze_thumbnail_with_vision: the oracle's rating (one of the three
\* the prompt asks for, another string, or an object without a rating), an
\* exception in the call (handled inside: rating Warning), or a JSON
\* answer that is not an object, which the function returns as it is
VisionOutcomes ==
    {"Danger", "Warning", "Safe", "Unknown", "no_rating", "raises",
     "not_an_object"}

\* the request and the behaviour of the steps of one analyze call; mapping
\* is the construction of the claim entries and of the result
AnalyzerInputs ==
    { [analyzer |-> "image", client |-> c, ocr |-> o, vision |-> v,
       transcript |-> FALSE, stt |-> "none", fishing |-> "none",
       mapping |-> m, claims |-> cl] :
        c \in BOOLEAN, o \in OcrOutcomes, v \in VisionOutcomes,
        m \in {"ok", "raises"}, cl \in ClaimLists \cup {<<>>} }
    \cup
    { [analyzer |-> "audio", client |-> TRUE,
       ocr |-> [raised |-> TRUE, ratio |-> 0, has_clickbait |-> FALSE],
       vision |-> "Safe", transcript |-> t, stt |-> s, fishing |-> f,
       mapping |-> m, claims |-> cl] :
        t \in BOOLEAN, s \in {"text", "empty"}, f \in {"summary", "raises"},
        m \in {"ok", "raises"}, cl \in ClaimLists \cup {<<>>} }

\* the except clauses of _analyze_thumbnail_with_vision, lines 342-360
VisionRating(vision) == IF vision = "raises" THEN "Warning" ELSE vision

\* lines 84-141: the stage of the thumbnail analysis
Stage(ocr) ==
    IF ocr.raised THEN "error"
    ELSE IF ocr.ratio < StageTwoRatio /\ ~ocr.has_clickbait
    THEN "stage1_pass"
    ELSE IF ocr.ratio >= StageTwoRatio /\ ocr.has_clickbait
    THEN "stage2_vision"
    ELSE "stage1_borderline"

\* vision_result.get("fake_news_rating", "Safe"), lines 126 and 150
RatingOf(vision) ==
    IF vision = "no_rating" THEN "Safe" ELSE VisionRating(vision)

ContradictionScore_two_valued(stage, rating) ==
    IF stage = "stage2_vision" /\ rating \in {"Danger", "Warning"}
    THEN 1000 ELSE 0

\* lines 143-163: image_contradiction_score, in thousandths; is_fake is
\* set only by stage 2 and only for the ratings Danger and Warning
ContradictionScore(stage, rating) ==
    IF stage = "stage2_vision" /\ rating \in {"Danger", "Warning"}
    THEN IF rating = "Danger" THEN 1000 ELSE 500
    ELSE 0

\* the result ImageAnalyzer.analyze returns; overall_contradiction_score
\* has the default 0.0 (image_module/schemas.py:25)
ImageModuleResult(status, summary, message, claims, score) ==
    [raised |-> FALSE, modality |-> "image", status |-> status,
     analysis_summary |-> summary, error_message |-> message,
     claims |-> claims, overall_contradiction_score |-> score]

\* the result AudioAnalyzer.analyze returns
AudioModuleResult(status, summary, message, claims) ==
    [raised |-> FALSE, modality |-> "audio", status |-> status,
     analysis_summary |-> summary, error_message |-> message,
     claims |-> claims]

\* an exception leaves the try body
Escaped(message) == [raised |-> TRUE, message |-> message]

\* image_analyzer.py lines 79-201, the try body: vision_result.get on an
\* answer that is not an object raises AttributeError
ImageBody(in) ==
    IF Stage(in.ocr) = "stage2_vision" /\ in.vision = "not_an_object"
    THEN Escaped("AttributeError")
    ELSE IF in.mapping = "raises" THEN Escaped("mapping")
    ELSE ImageModuleResult("success", Stage(in.ocr), <<>>, in.claims,
             ContradictionScore(Stage(in.ocr), RatingOf(in.vision)))

\* audio_analyzer.py lines 53-92, the try body; _get_transcript and
\* _detect_fishing handle their own failures
AudioBody(in) ==
    IF in.mapping = "raises" THEN Escaped("mapping")
    ELSE AudioModuleResult("success",
                  IF ~in.transcript /\ in.stt = "empty" THEN "stt_failed"
                  ELSE IF in.fishing = "raises" THEN "fishing_error"
                  ELSE "fishing_analysis",
                  <<>>, in.claims)

AnalyzerBody(in) ==
    IF in.analyzer = "image" THEN ImageBody(in) ELSE AudioBody(in)

\* analyze of either analyzer: the early return without a vision client
\* (image, lines 63-72), the body, and the except clause that returns a
\* result with status=error and str(e); log_execution hands on what the
\* function returns
analyze_reraise(in) == AnalyzerBody(in)

analyze(in) ==
    IF in.analyzer = "image" /\ ~in.client
    THEN ImageModuleResult("error", "client_error",
                           <<"client_not_initialized">>, <<>>, 0)
    ELSE IF AnalyzerBody(in).raised
    THEN IF in.analyzer = "image"
         THEN ImageModuleResult("error", "error",
                                <<AnalyzerBody(in).message>>, <<>>, 0)
         ELSE AudioModuleResult("error", "error",
                                <<AnalyzerBody(in).message>>, <<>>)
    ELSE AnalyzerBody(in)

\* the steps one analyze call invokes: the thumbnail OCR and, in stage 2,
\* the vision oracle (image_analyzer.py lines 84-121); the download with
\* speech-to-text and the fishing analysis (audio_analyzer.py lines 56-69)
StepsInvoked(in) ==
    IF in.analyzer = "image"
    THEN IF ~in.client THEN {}
         ELSE {"ocr"} \cup
              (IF Stage(in.ocr) = "stage2_vision" THEN {"vision"} ELSE {})
    ELSE (IF in.transcript THEN {} ELSE {"stt"}) \cup
         (IF in.transcript \/ in.stt = "text" THEN {"fishing"} ELSE {})

InitAnalyzers ==
    /\ whitelist = <<>>
    /\ blacklist = <<>>
    /\ an_pc = "call"
    /\ an_input \in AnalyzerInputs
    /\ an_return = <<>>
    /\ an_calls = {}
    /\ PipelineIdle
    /\ RegistryIdle
    /\ TranscriptIdle
    /\ OrchestratorIdle
    /\ AggregatorIdle

Analyze ==
    /\ an_pc = "call"
    /\ an_return' = <<analyze(an_input)>>
    /\ an_calls' = StepsInvoked(an_input)
    /\ an_pc' = "done"
    /\ UNCHANGED <<an_input, whitelist, blacklist, pipelineVars,
                   registryVars, transcriptVars, orchestratorVars,
                   aggregatorVars>>

SpecAnalyzers == InitAnalyzers /\ [][Analyze]_vars

----------------------------------------------------------------------------
(* Properties of the analyzers (SpecAnalyzers) *)

\* a failure that no step handles: the construction of the entries or of
\* the result fails, or the image analyzer reads a stage-2 answer that is
\* not an object
EscapingFailure ==
    \/ an_input.mapping = "raises"
    \/ /\ an_input.analyzer = "image"
       /\ ~an_input.ocr.raised
       /\ an_input.ocr.ratio >= StageTwoRatio
       /\ an_input.ocr.has_clickbait
       /\ an_input.vision = "not_an_object"

----------------------------------------------------------------------------
(* Further properties of the registry (SpecRegistry) *)

\* the lists as the constructor loaded them from the backing files
LoadedWhitelist == load_whitelist(sm_files.whitelist)

LoadedBlacklist == load_blacklist(sm_files.blacklist)

\* C31: after construction no sequence of queries changes the whitelist or
\* the denylist: both stay as loaded, so the answers for a URL and a
\* category are the ones the loaded lists give, whatever was asked before.
C31_NoWritePath ==
    sm_pc = "ready" =>
        /\ whitelist = LoadedWhitelist
        /\ blacklist = LoadedBlacklist
        /\ sm_query # <<>> =>
            LET q == sm_query[1]
            IN  /\ q.is_blacklisted = is_blacklisted(LoadedBlacklist, q.url)
                /\ q.tier = get_domain_tier(LoadedWhitelist, q.url)
                /\ q.base_score =
                      get_domain_score(LoadedWhitelist, LoadedBlacklist, q.url)
                /\ q.final_score =
                      get_credibility_info(LoadedWhitelist, LoadedBlacklist,
                                           q.url, q.category)

C31_Witness ==
    /\ sm_pc = "ready"
    /\ sm_query # <<>>
    /\ sm_query[1].tier # 0
    /\ sm_query[1].final_score < sm_query[1].base_score
    /\ blacklist # <<>>

----------------------------------------------------------------------------
(* Order of the filter's result (Spec) *)

\* the kept hits in the order of the raw hits, before the sort
KeptInRawOrder ==
    FilterHits(whitelist, blacklist, raw_results, claim.category)

\* the candidates of s with trust score v, in the order of s
WithScore(s, v) ==
    LET HasScore(e) == e.domain_score = v
    IN  SelectSeq(s, HasScore)

\* C35: the filter returns its candidates in descending order of trust
\* score, and candidates of equal score keep the order of the raw hits.
C35_DescendingAndStable ==
    pc \in {"rank", "judge", "done"} =>
        /\ \A i, j \in 1..Len(evidence_list) :
              i < j =>
                evidence_list[i].domain_score >= evidence_list[j].domain_score
        /\ \A i \in 1..Len(evidence_list) :
              WithScore(evidence_list, evidence_list[i].domain_score)
                = WithScore(KeptInRawOrder, evidence_list[i].domain_score)

\* two candidates tie and a later raw hit outranks an earlier one
C35_Witness ==
    /\ pc = "rank"
    /\ evidence_list # KeptInRawOrder
    /\ \E i, j \in 1..Len(evidence_list) :
        /\ i < j
        /\ evidence_list[i].domain_score = evidence_list[j].domain_score
        /\ evidence_list[i].source_url # evidence_list[j].source_url

----------------------------------------------------------------------------
(* Backoff waits of the captions-API strategy (SpecTranscript) *)

\* the positions of the backoff waits in the trace
Sleeps == {i \in 1..Len(tr_trace) : tr_trace[i].e = "sleep"}

\* a wait follows the call at position i
WaitAfter(i) ==
    \/ i = Len(tr_trace) /\ tr_pc = "sleep"
    \/ i < Len(tr_trace) /\ tr_trace[i + 1].e = "sleep"

\* C36: the wait after the failing attempt a, a in 0..3, lasts at least
\* 4 * 2^a seconds and less than 4 * 2^a + 2 seconds (delays are in tenths
\* of a second), and a retryable failure of such an attempt is followed by
\* a wait; no wait follows the final attempt or a non-retryable error.
C36_BackoffWaits ==
    /\ \A i \in Sleeps :
        LET a == tr_trace[i].attempt
        IN  /\ a \in 0..3
            /\ tr_trace[i].delay >= 40 * Pow2(a)
            /\ tr_trace[i].delay < 40 * Pow2(a) + 20
            /\ i > 1
            /\ tr_trace[i - 1].e = "fetch"
            /\ tr_trace[i - 1].attempt = a
            /\ Retryable(tr_trace[i - 1].outcome)
    /\ \A i \in Fetches :
        IF Retryable(tr_trace[i].outcome) /\ tr_trace[i].attempt \in 0..3
        THEN WaitAfter(i)
        ELSE ~WaitAfter(i)

\* four waits, the last of them after attempt 3 with the largest jitter,
\* and a final attempt that failed with a retryable error
C36_Witness ==
    /\ tr_pc = "done"
    /\ Cardinality(Sleeps) = 4
    /\ \E i \in Sleeps : tr_trace[i].attempt = 3 /\ tr_trace[i].delay = 339
    /\ \E i \in Sleeps : tr_trace[i].attempt = 2 /\ tr_trace[i].delay = 160
    /\ Retryable(tr_trace[Len(tr_trace)].outcome)

----------------------------------------------------------------------------
(* Calls of the aggregator (SpecOrchestrator) *)

\* the positions of the result events that carry the aggregator's verdict
AggregatedResults ==
    {i \in 1..Len(events) :
        /\ events[i].type = "result"
        /\ events[i].message \in AggregatorOutcomes}

\* C34: the aggregator is called at most once in a run, after the text
\* task and the image task have completed, with a text result that is not
\* a failure and has at least one claim; its verdict is yielded at most
\* once and only after the call; a run whose last event is an error event
\* of the integration step has no aggregator call.
C34_AggregatorCalledOnce ==
    /\ Len(aggregator_calls) <= 1
    /\ aggregator_calls # <<>> =>
        /\ orch_pc \in {"aggregating", "done"}
        /\ text_task = Finished("claims")
        /\ image_task.state = "done"
        /\ audio_task.state = "done"
        /\ text_claims # <<>>
        /\ aggregator_calls[1].claims = text_claims
    /\ Cardinality(AggregatedResults) <= Len(aggregator_calls)
    /\ (orch_pc = "done" /\ aggregator_calls # <<>>) =>
        Cardinality(AggregatedResults) = 1
    /\ (events # <<>> /\ LastEvent.type = "error") =>
        /\ orch_pc = "done"
        /\ aggregator_calls = <<>>
        /\ AggregatedResults = {}

\* a finished run with two claims and one aggregator call
C34_Witness ==
    /\ orch_pc = "done"
    /\ Len(aggregator_calls) = 1
    /\ Len(text_claims) = 2
    /\ image_task.outcome = "error"
    /\ LastEvent = Event("result", "verdict")

----------------------------------------------------------------------------
(* Transcript work (SpecOrchestrator) *)

\* caller obtained a transcript in this run: the audio pipeline by
\* download and speech-to-text, the text pipeline by get_transcript
ObtainedBy(caller) ==
    \E i \in 1..Len(transcript_calls) : transcript_calls[i] = caller

\* C33: with a transcript on the request from the client, neither the
\* audio pipeline nor the text pipeline obtains one; when the audio result
\* has a transcript and the request had none, the transcript is on the
\* request from the moment the text task exists, and the text pipeline
\* never enters get_transcript; no pipeline obtains a transcript twice.
C33_TranscriptNotDuplicated ==
    /\ request.transcript = "client" => transcript_calls = <<>>
    /\ (audio_task.outcome = "transcript" /\ request.transcript # "client") =>
        /\ text_task # NoTask => request.transcript = "audio"
        /\ ~ObtainedBy("text")
        /\ text_pc \notin {"transcript", "sleep"}
        /\ transcript_calls = <<"audio">>
    /\ ObtainedBy("text") =>
        /\ request.transcript = "none"
        /\ audio_task.outcome \in {"no_transcript", "error", "raised"}
    /\ transcript_calls \in {<<>>, <<"audio">>, <<"audio", "text">>}

\* a finished run in which the transcript of the audio result was used
C33_Witness ==
    /\ orch_pc = "done"
    /\ request.transcript = "audio"
    /\ transcript_calls = <<"audio">>
    /\ text_task = Finished("claims")

----------------------------------------------------------------------------
(* The result of the image analyzer (SpecAnalyzers) *)

----------------------------------------------------------------------------
(* The sources of the final verdict (Spec) *)

\* the source_url of each item of an evidence list, in its order
UrlsOf(evs) == [i \in 1..Len(evs) |-> evs[i].source_url]

\* text_sources as the aggregator collects it from the claim's verdict
TextSources ==
    AddSources(<<>>, UrlsOf(VerdictEvidence), verdict[1].verdict_reason)

----------------------------------------------------------------------------
(* SpecText: TextAnalyzer.analyze, text_module/text_analyzer.py *)

\* an oracle that answers verified_true
AnsweringOracle ==
    [client_ok |-> TRUE, kind |-> "answer", has_status |-> TRUE,
     status |-> "verified_true", msg |-> "", reason |-> "oracle_reason"]

\* what the steps of _process_single_claim do for one claim: search_claim
\* raises inside (caught there, web_searcher.py:71-73), nothing passes the
\* filter, or evidence is found; rank_and_select returns or raises; the
\* oracle behaves as in the per-claim pipeline
ClaimBehaviours ==
    {[search |-> sr, rank |-> "ok", oracle |-> AnsweringOracle] :
        sr \in {"raises", "nothing"}}
    \cup {[search |-> "hits", rank |-> "raises", oracle |-> AnsweringOracle]}
    \cup {[search |-> "hits", rank |-> "ok", oracle |-> o] :
            o \in OracleBehaviours}

\* the claims extract_claims_from_video gives, the i-th with claim_id i
ExtractedClaims(n) ==
    [i \in 1..n |-> [claim_id |-> i, category |-> "health"]]

\* one analyze call: whether the extraction raises, the claims, and the
\* behaviour of the steps for each claim
TextInputs ==
    {[extraction |-> "raises", claims |-> <<>>, behaviour |-> <<>>]} \cup
    UNION { {[extraction |-> "ok", claims |-> ExtractedClaims(n),
              behaviour |-> b] : b \in [1..n -> ClaimBehaviours]} :
            n \in 0..MaxTextClaims }

\* the top evidence of a claim whose search found evidence
FoundEvidence == <<CHOOSE e \in EvidencePool : TRUE>>

process_single_claim_search_raises(c, b) ==
    IF b.search = "raises" \/ (b.search = "hits" /\ b.rank = "raises")
    THEN [exception |-> TRUE, verdict |-> <<>>]
    ELSE IF b.search = "nothing"
    THEN [exception |-> FALSE, verdict |-> <<NoEvidenceVerdict(c)>>]
    ELSE [exception |-> FALSE,
          verdict |-> <<judge_claim(c, FoundEvidence, b.oracle)>>]

\* _process_single_claim, lines 195-234: the verdict, or the exception it
\* re-raises; a failed search comes back from search_and_filter as []
process_single_claim(c, b) ==
    IF b.search # "hits"
    THEN [exception |-> FALSE, verdict |-> <<NoEvidenceVerdict(c)>>]
    ELSE IF b.rank = "raises"
    THEN [exception |-> TRUE, verdict |-> <<>>]
    ELSE [exception |-> FALSE,
          verdict |-> <<judge_claim(c, FoundEvidence, b.oracle)>>]

\* the calls _process_single_claim makes for one claim, in order
CallsOfClaim(b) ==
    <<"search">> \o
    (IF b.search = "hits" THEN <<"rank">> ELSE <<>>) \o
    (IF b.search = "hits" /\ b.rank = "ok"
        /\ OracleInvoked(FoundEvidence, b.oracle)
     THEN <<"oracle">> ELSE <<>>)

\* lines 80-93: asyncio.gather(..., return_exceptions=True) keeps the
\* order of the tasks, and the results that are exceptions are left out
ValidVerdicts(claims, behaviour) ==
    LET gathered == [i \in 1..Len(claims) |->
                        process_single_claim(claims[i], behaviour[i])]
        IsVerdict(r) == ~r.exception
        kept == SelectSeq(gathered, IsVerdict)
    IN  [i \in 1..Len(kept) |-> kept[i].verdict[1]]

FakeCount(verdicts) ==
    Cardinality({i \in 1..Len(verdicts) : verdicts[i].is_fake})

\* VerdictAgent.aggregate_verdicts, verdict_agent.py lines 219-249:
\* fake_claims_count >= total_claims * 0.5
aggregate_verdicts(verdicts) ==
    IF verdicts = <<>>
    THEN [is_fake_news |-> FALSE, total_claims |-> 0, fake_claims_count |-> 0]
    ELSE [is_fake_news |-> (FakeCount(verdicts) * 10 >= Len(verdicts) * 5),
          total_claims |-> Len(verdicts),
          fake_claims_count |-> FakeCount(verdicts)]

determine_assessment_majority(fake_count, total_count) ==
    IF total_count = 0 THEN "inconclusive"
    ELSE IF (fake_count * 1000) \div total_count > 500 THEN "suspicious"
    ELSE "normal"

\* _determine_assessment, lines 172-193: fake_ratio = fake_count /
\* total_count, in thousandths, compared with 0.5
determine_assessment(fake_count, total_count) ==
    IF total_count = 0 THEN "inconclusive"
    ELSE IF (fake_count * 1000) \div total_count >= 500 THEN "suspicious"
    ELSE "normal"

\* _convert_verdicts_to_findings, lines 145-170
convert_verdicts_to_findings(verdicts) ==
    [i \in 1..Len(verdicts) |->
        [finding_id |-> verdicts[i].claim_id,
         finding_type |-> "claim",
         is_problematic |-> verdicts[i].is_fake,
         severity |-> IF verdicts[i].is_fake THEN "high" ELSE "low",
         evidence_summary |-> verdicts[i].verdict_reason]]

\* the TextModuleResult of _create_no_claims_result (status success) and
\* of _create_error_result (status error), lines 236-284
EmptyTextResult(status, message) ==
    [status |-> status, error_message |-> message, findings |-> <<>>,
     total_findings |-> 0, problematic_findings_count |-> 0,
     module_assessment |-> "inconclusive", claims |-> <<>>]

\* analyze, lines 62-143
text_analyze(in) ==
    IF in.extraction = "raises" THEN EmptyTextResult("error", <<"extraction">>)
    ELSE IF in.claims = <<>> THEN EmptyTextResult("success", <<>>)
    ELSE LET valid_verdicts == ValidVerdicts(in.claims, in.behaviour)
             aggregated == aggregate_verdicts(valid_verdicts)
         IN  IF valid_verdicts = <<>>
             THEN EmptyTextResult("error", <<"all_claims_failed">>)
             ELSE [status |-> "success",
                   error_message |-> <<>>,
                   findings |-> convert_verdicts_to_findings(valid_verdicts),
                   total_findings |-> aggregated.total_claims,
                   problematic_findings_count |->
                       aggregated.fake_claims_count,
                   module_assessment |->
                       determine_assessment(aggregated.fake_claims_count,
                                            aggregated.total_claims),
                   claims |-> valid_verdicts]

InitText ==
    /\ whitelist = <<>>
    /\ blacklist = <<>>
    /\ an_pc = "call"
    /\ an_input \in TextInputs
    /\ an_return = <<>>
    /\ an_calls = {}
    /\ PipelineIdle
    /\ RegistryIdle
    /\ TranscriptIdle
    /\ OrchestratorIdle
    /\ AggregatorIdle

AnalyzeText ==
    /\ an_pc = "call"
    /\ an_return' = <<text_analyze(an_input)>>
    /\ an_calls' = { <<i, CallsOfClaim(an_input.behaviour[i])>> :
                        i \in 1..Len(an_input.claims) }
    /\ an_pc' = "done"
    /\ UNCHANGED <<an_input, whitelist, blacklist, pipelineVars,
                   registryVars, transcriptVars, orchestratorVars,
                   aggregatorVars>>

SpecText == InitText /\ [][AnalyzeText]_vars

----------------------------------------------------------------------------
(* Properties of the text result (SpecText) *)

\* the verdict of the claim with claim_id i in a text result: <<>> or <<v>>
VerdictOf(result, i) ==
    LET HasId(v) == v.claim_id = i
    IN  SelectSeq(result.claims, HasId)

\* the search of claim i failed
SearchFailed(i) == an_input.behaviour[i].search = "raises"

\* the oracle step of claim i failed: no client, or the call raised
OracleStepFailed(i) ==
    /\ an_input.behaviour[i].search = "hits"
    /\ an_input.behaviour[i].rank = "ok"
    /\ \/ ~an_input.behaviour[i].oracle.client_ok
       \/ an_input.behaviour[i].oracle.kind = "error"

\* the same call with the steps of claim i succeeding
WithoutFailure(i) ==
    [an_input EXCEPT !.behaviour[i] =
        [search |-> "hits", rank |-> "ok", oracle |-> AnsweringOracle]]

\* C32: a claim whose search or oracle call failed has made each call once
\* and has a sentinel verdict in the text result (no evidence, or the
\* failure message, with status insufficient_evidence); every other
\* claim has the verdict it has in the same call without that failure;
\* and the verdicts are in the order of the extracted claims.
C32_FailureStaysWithItsClaim ==
    an_pc = "done" =>
        LET r == an_return[1]
            n == Len(an_input.claims)
        IN  /\ \A i \in 1..n :
                (SearchFailed(i) \/ OracleStepFailed(i)) =>
                    /\ r.status = "success"
                    /\ Len(VerdictOf(r, i)) = 1
                    /\ VerdictOf(r, i)[1].verdict_status
                          = "insufficient_evidence"
                    /\ SearchFailed(i) =>
                        /\ VerdictOf(r, i)[1].evidence = <<>>
                        /\ <<i, <<"search">> >> \in an_calls
                    /\ OracleStepFailed(i) =>
                        /\ ~VerdictOf(r, i)[1].is_fake
                        /\ VerdictOf(r, i)[1].verdict_reason =
                              <<"error_during_judgment",
                                an_input.behaviour[i].oracle.msg>>
                        /\ \E calls \in {<<"search", "rank">>,
                                          <<"search", "rank", "oracle">>} :
                              <<i, calls>> \in an_calls
                    /\ \A j \in (1..n) \ {i} :
                          VerdictOf(r, j)
                            = VerdictOf(text_analyze(WithoutFailure(i)), j)
            /\ \A k, m \in 1..Len(r.claims) :
                  k < m => r.claims[k].claim_id < r.claims[m].claim_id

\* three claims: the search of the first fails, the oracle call of the
\* second fails, the third is judged
C32_Witness ==
    /\ an_pc = "done"
    /\ Len(an_input.claims) = 3
    /\ SearchFailed(1)
    /\ OracleStepFailed(2)
    /\ an_input.behaviour[2].oracle.msg = "timeout"
    /\ an_input.behaviour[3].oracle.status = "verified_false"
    /\ Len(an_return[1].claims) = 3
    /\ an_return[1].claims[3].is_fake

\* C38: in a text result with status=success and at least one claim,
\* total_findings is the number of verdicts and of findings,
\* problematic_findings_count is the number of verdicts with is_fake and
\* is at most total_findings, and module_assessment is suspicious when at
\* least half of the verdicts are fake, which is when aggregate_verdicts
\* gives is_fake_news, and normal otherwise.
C38_CountsAndAssessment ==
    (an_pc = "done" /\ an_return[1].status = "success"
        /\ an_return[1].claims # <<>>) =>
        LET r == an_return[1]
            fakes == {i \in 1..Len(r.claims) : r.claims[i].is_fake}
        IN  /\ r.total_findings = Len(r.claims)
            /\ r.total_findings = Len(r.findings)
            /\ r.problematic_findings_count = Cardinality(fakes)
            /\ r.problematic_findings_count <= r.total_findings
            /\ \A i \in 1..Len(r.claims) :
                  /\ r.findings[i].finding_id = r.claims[i].claim_id
                  /\ r.findings[i].is_problematic = r.claims[i].is_fake
            /\ r.module_assessment =
                  IF 2 * Cardinality(fakes) >= Len(r.claims)
                  THEN "suspicious" ELSE "normal"
            /\ (r.module_assessment = "suspicious")
                  <=> aggregate_verdicts(r.claims).is_fake_news

\* exactly half of the verdicts are fake: two verdicts of three claims,
\* one of them fake
C38_Witness ==
    /\ an_pc = "done"
    /\ Len(an_input.claims) = 3
    /\ an_return[1].status = "success"
    /\ an_return[1].total_findings = 2
    /\ an_return[1].problematic_findings_count = 1
    /\ an_return[1].module_assessment = "suspicious"

====
